---- MODULE Spec2Model ----
(***************************************************************************)
(* Model of the minecraft2d player / block / chunk-store core.             *)
(*                                                                         *)
(* Time and health are counted in twelfths of a second (damage at the unit *)
(* mining rate), so that move_interval (1/6 s) and every mining difficulty *)
(* (1.0, 1.5, 4.0, 5.0, 8.0) are integers.                                 *)
(***************************************************************************)
EXTENDS Integers, Sequences, FiniteSets, TLC

VARIABLES
    world_x, world_y, orientation,      \* Player position and facing
    inventory, active_slot,             \* Player.inventory (insertion-ordered dict), slot
    is_mining, mining_target,           \* mining session
    just_finished_mining,               \* one-shot flag
    pressed_keys, movement_timer,       \* continuous movement
    chunks,                             \* Game.chunks: chunk coord -> local coord -> Block
    terrain_seed,                       \* Game.terrain_generator.seed
    track_all,                          \* the model stores every cell of a chunk (or the window only)
    window_width, window_height,        \* Camera.window_width, Camera.window_height
    cam_x, cam_y,                       \* Camera.x, Camera.y (see CamAt)
    rng,                                \* state of the global random module (followed in SpecTerrain)
    gen_seen,                           \* history: cell -> first generate_block_type result, and by which generator
    gen_last,                           \* the last generate_block_type call and its result
    cfg,                                \* the TerrainConfig objects: ConfigId -> fields
    gen_cfg,                            \* self.config of the terrain generator: a ConfigId
    cfg_ev,                             \* observation of the last configuration operation
    adjust_calls,                       \* history: number of auto_adjust_thresholds calls made
    saved,                              \* saves/<world_name>.json: the dict save_world dumped, or None
    game_state,                         \* main: "menu", "playing" or "paused" ("exited" after sys.exit)
    has_game,                           \* main: game is not None
    current_world_name,                 \* main: the name of the world being played, or None
    current_menu,                       \* MenuSystem.current_menu
    selected_option,                    \* MenuSystem.selected_option
    save_world_name,                    \* MenuSystem.save_world_name
    saves,                              \* the saves directory: world name -> file content
    held,                               \* the keys physically held down
    press_mined,                        \* history: the SPACE press now held started a mining session
    blk,                                \* a stand-alone Block (block-level calls)
    blk_ret,                            \* return value of the last take_damage on blk
    blk_hist,                           \* amounts passed to take_damage on blk, in order
    blk_rets,                           \* the values take_damage returned, in order
    since_completion,                   \* history: a completion happened since the last SPACE key-up
    session_dt,                         \* history: the dt accumulated by the ticks of the current mining session
    ev                                  \* observation of the last operation

vars == <<world_x, world_y, orientation, inventory, active_slot, is_mining,
          mining_target, just_finished_mining, pressed_keys, movement_timer,
          chunks, terrain_seed, track_all, window_width, window_height, cam_x,
          cam_y, rng, gen_seen, gen_last, cfg, gen_cfg, cfg_ev, adjust_calls, saved, game_state, has_game,
          current_world_name, current_menu, selected_option, save_world_name, saves,
          held, press_mined, blk, blk_ret, blk_hist, blk_rets,
          since_completion, session_dt, ev>>

----------------------------------------------------------------------------
(* Bounds of the model *)

WindowRadius == 2       \* tracked world cells are (-WindowRadius..WindowRadius)^2
MaxTimer == 30          \* updates with keys held stop once movement_timer would pass this
MaxHeld == 1            \* movement keys held at once
CoordBound == 50        \* world coordinates -CoordBound..CoordBound in the partition check
MaxAdjust == 2          \* auto_adjust_thresholds calls
MaxHits == 3            \* number of take_damage calls on the stand-alone block

DtSet == {30, 60}       \* frame times: 2.5 s, 5 s
DamageSet == {0, 6, 12, 18}   \* take_damage amounts on the stand-alone block: 0, 0.5, 1.0, 1.5
Seeds == {42}           \* Game(terrain_seed=42) is the default world

----------------------------------------------------------------------------
(* Program constants *)

None == <<>>
NoType == "none"
ChunkSize == 16
MiningDamageRate == 1
MoveInterval == 2       \* 1.0 / movement_speed = 1/6 s

K_w == "K_w"
K_a == "K_a"
K_s == "K_s"
K_d == "K_d"
K_SPACE == "K_SPACE"
K_1 == "K_1"
K_2 == "K_2"
K_3 == "K_3"
K_4 == "K_4"
K_5 == "K_5"
MovementKeys == {K_w, K_a, K_s, K_d}
SlotKeys == {K_1, K_2, K_3, K_4, K_5}
Keys == MovementKeys \cup {K_SPACE} \cup SlotKeys

\* the keys the input layer delivers in the model
InputKeys == MovementKeys \cup {K_SPACE, K_1, K_2}

BlockTypes == {"grass", "dirt", "sand", "wood", "stone", "coal", "lava",
               "diamond", "water", "stick", "torch"}

----------------------------------------------------------------------------
(* BlockType property tables *)

MiningResult(t) ==
    CASE t = "wood" -> "wood"
      [] t = "stone" -> "stone"
      [] t = "coal" -> "coal"
      [] t = "diamond" -> "diamond"
      [] OTHER -> NoType

\* slip: mined stone leaves stone behind
ReplacementBlock_stone(t) ==
    CASE t = "wood" -> "dirt"
      [] t = "stone" -> "stone"
      [] t = "coal" -> "dirt"
      [] t = "diamond" -> "dirt"
      [] OTHER -> NoType

ReplacementBlock(t) ==
    CASE t = "wood" -> "dirt"
      [] t = "stone" -> "dirt"
      [] t = "coal" -> "dirt"
      [] t = "diamond" -> "dirt"
      [] OTHER -> NoType

TypeWalkable(t) == t \in {"grass", "dirt", "sand"}

TypeMinable(t) == t \in {"wood", "stone", "diamond", "coal"}

MiningDifficulty(t) ==
    CASE t = "wood" -> 18
      [] t = "stone" -> 60
      [] t = "coal" -> 48
      [] t = "diamond" -> 96
      [] OTHER -> 12

----------------------------------------------------------------------------
(* Block *)

BlockWalkable(t) == t \in {"grass", "dirt", "sand"}

BlockMinable(t) == t \in {"wood", "stone", "diamond", "coal"}

BlockMiningDifficulty(t) ==
    CASE t = "wood" -> 18
      [] t = "stone" -> 60
      [] t = "coal" -> 48
      [] t = "diamond" -> 96
      [] OTHER -> 12

Block(t) ==
    [type |-> t,
     walkable |-> BlockWalkable(t),
     minable |-> BlockMinable(t),
     max_health |-> BlockMiningDifficulty(t),
     current_health |-> BlockMiningDifficulty(t)]

\* slip: the health is left as it is
reset_health_keeps_damage(b) == b

reset_health(b) == [b EXCEPT !.current_health = b.max_health]

\* slip: the minable check is missing
take_damage_unguarded(b, damage) ==
    [block |-> [b EXCEPT !.current_health = b.current_health - damage],
     destroyed |-> (b.current_health - damage <= 0)]

\* slip: the damage is added to the health
take_damage_adds(b, damage) ==
    IF ~b.minable
    THEN [block |-> b, destroyed |-> FALSE]
    ELSE [block |-> [b EXCEPT !.current_health = b.current_health + damage],
          destroyed |-> (b.current_health + damage <= 0)]

\* slip: destroyed only below zero
take_damage_strict(b, damage) ==
    IF ~b.minable
    THEN [block |-> b, destroyed |-> FALSE]
    ELSE [block |-> [b EXCEPT !.current_health = b.current_health - damage],
          destroyed |-> (b.current_health - damage < 0)]

\* take_damage: the block after the call, and the value the call returns
take_damage(b, damage) ==
    IF ~b.minable
    THEN [block |-> b, destroyed |-> FALSE]
    ELSE [block |-> [b EXCEPT !.current_health = b.current_health - damage],
          destroyed |-> (b.current_health - damage <= 0)]

\* Python None where a Block is expected (dict.get on a missing key)
NoBlock ==
    [type |-> "absent", walkable |-> FALSE, minable |-> FALSE,
     max_health |-> 0, current_health |-> 0]

----------------------------------------------------------------------------
(* Terrain generation.  Noise values, thresholds and chances are in        *)
(* hundredths.  The coherent-noise library is an external deterministic    *)
(* function of (coordinates, base); it is tabulated here for a small       *)
(* island around the origin: grass at (0,0), a tree north of it, stone     *)
(* west of it (in the next chunk), water everywhere else.  Odd seeds       *)
(* mirror the island in x.  Far east of the island (x >= StripX) lies a    *)
(* strip of columns in which the three noise channels take every           *)
(* combination of a few values: column StripX + k has the base noise       *)
(* StripBase[k % 6], the feature noise StripFeature[(k \div 6) % 4] and    *)
(* the lava-pool noise StripLava[(k \div 24) % 2], whatever y is.          *)

Max(a, b) == IF a >= b THEN a ELSE b
Min(a, b) == IF a <= b THEN a ELSE b

StripX == 1000
\* raw values that stretch to 0 (water), 30 (sand), 50 (grass), 80 (stone),
\* 86 and 93 (stone, at or above the default stone_threshold)
StripBase == <<-100, -12, 0, 18, 22, 26>>
StripFeature == <<10, 25, 50, 70>>
StripLava == <<0, 30>>

pnoise2(x, y, base) ==
    LET seed == base % 100
        salt == base - seed
        sx == IF seed % 2 = 0 THEN x ELSE 0 - x
        k == x - StripX
    IN  IF x >= StripX
        THEN (IF salt \in {0, 100, 200} THEN StripBase[(k % 6) + 1]
              ELSE IF salt = 1000 THEN StripFeature[((k \div 6) % 4) + 1]
              ELSE StripLava[((k \div 24) % 2) + 1])
        ELSE IF salt \in {0, 100, 200}
        THEN CASE <<sx, y>> = <<0, 0>> -> 0
               [] <<sx, y>> = <<0, -1>> -> 0
               [] <<sx, y>> = <<-1, 0>> -> 18
               [] OTHER -> -100
        ELSE IF salt = 1000
        THEN (IF <<sx, y>> = <<0, -1>> THEN 50 ELSE 0)
        ELSE 0

\* the state of the global random module: seeded with key, n draws consumed
random_seed(key) == [key |-> key, n |-> 0]

\* the value random.random() returns in state r (in hundredths), and the
\* state it leaves
random_draw(key, i) == (key * 37 + i * 61 + 11) % 100
random_random(r) == random_draw(r.key, r.n)
AfterDraw(r) == [r EXCEPT !.n = @ + 1]

base_layers ==
    << [name |-> "water", threshold |-> 25, target_percentage |-> 25],
       [name |-> "sand", threshold |-> 35, target_percentage |-> 10],
       [name |-> "grass", threshold |-> 70, target_percentage |-> 35],
       [name |-> "stone", threshold |-> 84, target_percentage |-> 14] >>

feature_rules ==
    << [name |-> "wood", base_terrain |-> {"grass", "dirt"}, spawn_chance |-> 75,
        noise_threshold |-> 30, requires_deep |-> FALSE, target_percentage |-> 10],
       [name |-> "lava", base_terrain |-> {"stone"}, spawn_chance |-> 80,
        noise_threshold |-> 40, requires_deep |-> TRUE, target_percentage |-> 5],
       [name |-> "diamond", base_terrain |-> {"stone"}, spawn_chance |-> 30,
        noise_threshold |-> 60, requires_deep |-> TRUE, target_percentage |-> 1],
       [name |-> "coal", base_terrain |-> {"stone"}, spawn_chance |-> 15,
        noise_threshold |-> 20, requires_deep |-> FALSE, target_percentage |-> 0] >>

noise_stretch_min == 35
noise_stretch_max == 65
stone_threshold == 84
lava_pool_threshold == 20

noise_params ==
    [noise_stretch_min |-> noise_stretch_min,
     noise_stretch_max |-> noise_stretch_max,
     stone_threshold |-> stone_threshold,
     lava_pool_threshold |-> lava_pool_threshold]

\* TerrainConfig(): a fresh configuration object
TerrainConfig ==
    [base_layers |-> base_layers, feature_rules |-> feature_rules,
     noise_params |-> noise_params]

\* the TerrainConfig objects: the module-level DEFAULT_CONFIG and one built
\* by a caller
DEFAULT_CONFIG == "DEFAULT_CONFIG"
ConfigIds == {DEFAULT_CONFIG, "custom"}

\* self.config of the generator: the object it refers to, as it is now
self_config == cfg[gen_cfg]

get_base_terrain_noise(config, seed, x, y) ==
    LET params == config.noise_params
        large_scale == pnoise2(x, y, seed)
        medium_scale == pnoise2(x, y, seed + 100)
        small_scale == pnoise2(x, y, seed + 200)
        combined == (50 * large_scale + 30 * medium_scale + 20 * small_scale) \div 100
        normalized == (combined + 100) \div 2
        stretched == ((normalized - params.noise_stretch_min) * 100)
                        \div (params.noise_stretch_max - params.noise_stretch_min)
    IN  Max(0, Min(100, stretched))

get_base_terrain_type(config, seed, x, y) ==
    LET layers == config.base_layers
        noise_value == get_base_terrain_noise(config, seed, x, y)
        hits == {i \in 1..Len(layers) : noise_value < layers[i].threshold}
    IN  IF hits # {}
        THEN layers[CHOOSE i \in hits : \A j \in hits : i <= j].name
        ELSE IF layers # <<>> THEN layers[Len(layers)].name ELSE "stone"

is_deep_underground(config, seed, x, y) ==
    get_base_terrain_noise(config, seed, x, y) >= config.noise_params.stone_threshold

get_feature_noise(seed, x, y) == pnoise2(x, y, seed + 1000)

should_place_lava_pool(config, seed, x, y) ==
    IF ~is_deep_underground(config, seed, x, y)
    THEN FALSE
    ELSE pnoise2(x, y, seed + 2000) > config.noise_params.lava_pool_threshold

Abs(n) == IF n < 0 THEN 0 - n ELSE n

RECURSIVE SumTargets(_)
SumTargets(q) == IF q = <<>> THEN 0 ELSE q[1].target_percentage + SumTargets(Tail(q))

\* one layer of the loop of auto_adjust_thresholds; actual_distribution maps
\* a type name to its percentage.  The distributions of the model make
\* difference / target_pct a multiple of 1/5, so that the adjustment is a
\* whole number of hundredths.
AdjustLayer(layer, actual_distribution) ==
    IF layer.name \notin DOMAIN actual_distribution
    THEN layer
    ELSE LET difference == actual_distribution[layer.name] - layer.target_percentage
             adjustment == (5 * difference) \div layer.target_percentage
         IN  IF Abs(difference) > 2
             THEN [layer EXCEPT !.threshold = Max(10, Min(90, @ + adjustment))]
             ELSE layer

auto_adjust_thresholds(config, actual_distribution) ==
    [config EXCEPT !.base_layers =
        [i \in DOMAIN config.base_layers |->
            AdjustLayer(config.base_layers[i], actual_distribution)]]

\* slip: only the percentages are checked
validate_configuration_lax(config) ==
    (IF SumTargets(config.base_layers) > 100 THEN {<<"base targets", 0>>} ELSE {})
    \cup (IF SumTargets(config.base_layers) + SumTargets(config.feature_rules) > 100
          THEN {<<"targets", 0>>} ELSE {})

\* the issues validate_configuration returns, as a set of <<kind, index>>
validate_configuration(config) ==
    LET layers == config.base_layers
        rules == config.feature_rules
        base_terrain_names == {layers[i].name : i \in DOMAIN layers}
        total_base_target == SumTargets(layers)
        total_feature_target == SumTargets(rules)
    IN  {<<"ascending", i>> : i \in {j \in 2..Len(layers) :
                                        layers[j].threshold <= layers[j - 1].threshold}}
        \cup {<<"unknown base terrain", i>> : i \in {j \in DOMAIN rules :
                  \E base_name \in rules[j].base_terrain :
                      base_name \notin base_terrain_names /\ base_name # "dirt"}}
        \cup (IF total_base_target > 100 THEN {<<"base targets", 0>>} ELSE {})
        \cup (IF total_base_target + total_feature_target > 100
              THEN {<<"targets", 0>>} ELSE {})

\* the two generator modules of the repository; game.py imports the second
terrain_generator == "terrain_generator"
terrain_generator_v2 == "terrain_generator_v2"

\* slip: the lava rule is treated like every other rule
is_lava_pool_rule_never(gen, rule) == FALSE

\* the test in front of the lava-pool check: terrain_generator compares
\* rule.name with BlockType.LAVA; terrain_generator_v2 compares it with the
\* str "lava", which no BlockType member equals
is_lava_pool_rule(gen, rule) ==
    IF gen = terrain_generator
    THEN rule.name = "lava" /\ rule.requires_deep
    ELSE FALSE /\ rule.requires_deep

\* the rule loop of generate_block_type from rule i on, with the locals
\* base_terrain, feature_noise and is_deep computed before it and the global
\* random module in state r: the type returned and the state the call leaves
RECURSIVE RuleLoop(_, _, _, _, _, _, _, _, _, _)
RuleLoop(gen, config, seed, x, y, base_terrain, feature_noise, is_deep, i, r) ==
    IF i > Len(config.feature_rules)
    THEN [type |-> base_terrain, rng |-> r]
    ELSE LET rule == config.feature_rules[i]
             Continue(r2) ==
                 RuleLoop(gen, config, seed, x, y, base_terrain, feature_noise,
                          is_deep, i + 1, r2)
         IN  IF base_terrain \notin rule.base_terrain
             THEN Continue(r)
             ELSE IF rule.requires_deep /\ ~is_deep
             THEN Continue(r)
             ELSE IF ~(feature_noise > rule.noise_threshold)
             THEN Continue(r)
             ELSE IF ~(random_random(r) < rule.spawn_chance)
             THEN Continue(AfterDraw(r))
             ELSE IF is_lava_pool_rule(gen, rule)
             THEN (IF should_place_lava_pool(config, seed, x, y)
                   THEN [type |-> rule.name, rng |-> AfterDraw(r)]
                   ELSE Continue(AfterDraw(r)))
             ELSE [type |-> rule.name, rng |-> AfterDraw(r)]

\* slip: the generator is not seeded per cell
Reseed_missing(r, seed, x, y) == r

\* random.seed(world_x * 10000 + world_y + self.seed), whatever the state r
Reseed(r, seed, x, y) == random_seed(x * 10000 + y + seed)

\* generate_block_type of module gen, holding config, called with the
\* global random module in state r
generate_block_type_from(gen, config, r, seed, x, y) ==
    RuleLoop(gen, config, seed, x, y, get_base_terrain_type(config, seed, x, y),
             get_feature_noise(seed, x, y), is_deep_underground(config, seed, x, y),
             1, Reseed(r, seed, x, y))

\* the type generate_block_type of a terrain_generator_v2 generator holding
\* config returns
generate_block_type_of(config, seed, x, y) ==
    generate_block_type_from(terrain_generator_v2, config, random_seed(0),
                             seed, x, y).type

\* self.terrain_generator.generate_block_type(world_x, world_y) in the Game
generate_block_type(seed, x, y) == generate_block_type_of(self_config, seed, x, y)

----------------------------------------------------------------------------
(* Game: the chunk store.  A chunk maps local coordinates to Blocks; the   *)
(* model keeps, of each chunk, the cells that lie in the tracked window    *)
(* (the island and the water around it: the only cells the player can      *)
(* read or write).                                                         *)

Window == (0 - WindowRadius)..WindowRadius

\* range(self.chunk_size)
ChunkRange == 0..(ChunkSize - 1)

\* the local keys of chunk (chunk_x, chunk_y) the model stores: all of them, or
\* those of the cells in the window
TrackedLocals(chunk_x, chunk_y) ==
    IF track_all
    THEN ChunkRange \X ChunkRange
    ELSE {<<x % ChunkSize, y % ChunkSize>> :
            <<x, y>> \in {w \in Window \X Window :
                            /\ w[1] \div ChunkSize = chunk_x
                            /\ w[2] \div ChunkSize = chunk_y}}

\* the dict _generate_chunk builds for chunk (chunk_x, chunk_y)
NewChunk(chunk_x, chunk_y) ==
    LET Fill(config) ==
            [l \in TrackedLocals(chunk_x, chunk_y) |->
                Block(generate_block_type_of(config, terrain_seed,
                                             chunk_x * ChunkSize + l[1],
                                             chunk_y * ChunkSize + l[2]))]
    IN  Fill(self_config)

_generate_chunk(chs, chunk_x, chunk_y) ==
    [k \in (DOMAIN chs) \cup {<<chunk_x, chunk_y>>} |->
        IF k = <<chunk_x, chunk_y>> THEN NewChunk(chunk_x, chunk_y) ELSE chs[k]]

\* slip: the remainder truncates towards zero
LocalCoord_truncated(c) == IF c < 0 THEN 0 - ((0 - c) % ChunkSize) ELSE c % ChunkSize

\* chunk and local coordinates of a world coordinate
ChunkCoord(c) == c \div ChunkSize
LocalCoord(c) == c % ChunkSize

\* slip: the chunk is generated again on every read
get_block_chunks_regenerates(chs, wx, wy) ==
    _generate_chunk(chs, ChunkCoord(wx), ChunkCoord(wy))

\* Game.chunks after get_block(world_x, world_y)
get_block_chunks(chs, wx, wy) ==
    IF <<ChunkCoord(wx), ChunkCoord(wy)>> \notin DOMAIN chs
    THEN _generate_chunk(chs, ChunkCoord(wx), ChunkCoord(wy))
    ELSE chs

\* the Block get_block(world_x, world_y) returns
get_block(chs, wx, wy) ==
    LET local == <<LocalCoord(wx), LocalCoord(wy)>>
        Lookup(chunk) == IF local \in DOMAIN chunk THEN chunk[local] ELSE NoBlock
    IN  Lookup(get_block_chunks(chs, wx, wy)[<<ChunkCoord(wx), ChunkCoord(wy)>>])

\* the store after a method of the Block at (wx, wy) has changed it to b
SetBlock(chs, wx, wy, b) ==
    [chs EXCEPT ![<<ChunkCoord(wx), ChunkCoord(wy)>>]
                 [<<LocalCoord(wx), LocalCoord(wy)>>] = b]

replace_block_ok(chs, wx, wy) ==
    /\ <<ChunkCoord(wx), ChunkCoord(wy)>> \in DOMAIN chs
    /\ <<LocalCoord(wx), LocalCoord(wy)>>
          \in DOMAIN chs[<<ChunkCoord(wx), ChunkCoord(wy)>>]

\* slip: a write creates the missing chunk
replace_block_creates(chs, wx, wy, new_block_type) ==
    SetBlock(get_block_chunks(chs, wx, wy), wx, wy, Block(new_block_type))

\* slip: the type is changed in place, the health is kept
replace_block_retypes(chs, wx, wy, new_block_type) ==
    IF replace_block_ok(chs, wx, wy)
    THEN SetBlock(chs, wx, wy,
                  [get_block(chs, wx, wy) EXCEPT !.type = new_block_type])
    ELSE chs

\* Game.chunks after replace_block(world_x, world_y, new_block_type)
replace_block(chs, wx, wy, new_block_type) ==
    IF replace_block_ok(chs, wx, wy)
    THEN SetBlock(chs, wx, wy, Block(new_block_type))
    ELSE chs

\* slip: the square is 3x3
_generate_chunks_around_player_3x3(chs, px, py) ==
    LET player_chunk_x == px \div ChunkSize
        player_chunk_y == py \div ChunkSize
        square == ((player_chunk_x - 1)..(player_chunk_x + 1))
                     \X ((player_chunk_y - 1)..(player_chunk_y + 1))
    IN  [k \in (DOMAIN chs) \cup square |->
            IF k \in DOMAIN chs THEN chs[k] ELSE NewChunk(k[1], k[2])]

\* slip: the chunks of the square are generated whether present or not
_generate_chunks_around_player_regenerates(chs, px, py) ==
    LET player_chunk_x == px \div ChunkSize
        player_chunk_y == py \div ChunkSize
        square == ((player_chunk_x - 2)..(player_chunk_x + 2))
                     \X ((player_chunk_y - 2)..(player_chunk_y + 2))
    IN  [k \in (DOMAIN chs) \cup square |->
            IF k \in square THEN NewChunk(k[1], k[2]) ELSE chs[k]]

_generate_chunks_around_player(chs, px, py) ==
    LET player_chunk_x == px \div ChunkSize
        player_chunk_y == py \div ChunkSize
        square == ((player_chunk_x - 2)..(player_chunk_x + 2))
                     \X ((player_chunk_y - 2)..(player_chunk_y + 2))
    IN  [k \in (DOMAIN chs) \cup square |->
            IF k \in DOMAIN chs THEN chs[k] ELSE NewChunk(k[1], k[2])]

----------------------------------------------------------------------------
(* Camera.  Camera.x and Camera.y are floats that creep towards the        *)
(* player; the model keeps of each the class 2n for "exactly the integer   *)
(* n" and 2n+1 for "strictly between n and n+1".                           *)

INVENTORY_HEIGHT == 120
GAME_HEIGHT == 1200
WINDOW_SIZE == <<1600, GAME_HEIGHT + INVENTORY_HEIGHT>>
GRID_SIZE == 64
CameraMargin == 2

CamAt(n) == 2 * n

\* int(v) for a float v of class c: truncation towards zero
CamInt(c) ==
    IF c % 2 = 0
    THEN c \div 2
    ELSE IF (c - 1) \div 2 >= 0 THEN (c - 1) \div 2 ELSE (c - 1) \div 2 + 1

\* the classes self.x can be in after self.x += (target - self.x) * smoothing,
\* smoothing = 0.05 = 1/20: the new value is (19 x + target) / 20
camera_update(c, target) ==
    IF c % 2 = 0
    THEN LET v == 19 * (c \div 2) + target
         IN  {IF v % 20 = 0 THEN 2 * (v \div 20) ELSE 2 * (v \div 20) + 1}
    ELSE LET n == (c - 1) \div 2
             lo == 19 * n + target
             hi == 19 * n + 19 + target
         IN  {k \in (2 * (lo \div 20))..(2 * (hi \div 20) + 1) :
                IF k % 2 = 0
                THEN lo < 10 * k /\ 10 * k < hi
                ELSE lo < 10 * (k + 1) /\ 10 * (k - 1) < hi}

\* Camera.get_visible_bounds: <<left, right, top, bottom>>
get_visible_bounds(s) ==
    LET half_screen_width == s.window_width \div (2 * GRID_SIZE)
        half_screen_height == (s.window_height - INVENTORY_HEIGHT) \div (2 * GRID_SIZE)
    IN  << CamInt(s.cam_x - 2 * (half_screen_width + CameraMargin)),
           CamInt(s.cam_x + 2 * (half_screen_width + CameraMargin)),
           CamInt(s.cam_y - 2 * (half_screen_height + CameraMargin)),
           CamInt(s.cam_y + 2 * (half_screen_height + CameraMargin)) >>

----------------------------------------------------------------------------
(* Player.  The methods are functions on the record s of the player's and  *)
(* the game's fields; s.ev records what the running operation did.         *)

Cur ==
    [world_x |-> world_x, world_y |-> world_y, orientation |-> orientation,
     inventory |-> inventory, active_slot |-> active_slot,
     is_mining |-> is_mining, mining_target |-> mining_target,
     just_finished_mining |-> just_finished_mining,
     pressed_keys |-> pressed_keys, movement_timer |-> movement_timer,
     chunks |-> chunks, window_width |-> window_width,
     window_height |-> window_height, cam_x |-> cam_x, cam_y |-> cam_y, ev |-> ev]

\* the observation record at the start of an operation; op is "keyup_space"
\* for the SPACE release, "move", "get_block", "replace_block", "update_state"
\* and "resize" for a call of that method from outside, "call" otherwise
Ev0(op) ==
    [op |-> op,
     start_called |-> FALSE,    \* start_mining ran
     stop_target |-> None,      \* stop_mining ran on an active session with this target
     stop_health |-> 0,         \* ... whose block had this health when it ran
     move_called |-> FALSE,     \* move ran
     move_d |-> <<0, 0>>,       \* ... with this (dx, dy)
     moved |-> FALSE,           \* move returned True
     damaged |-> FALSE,         \* take_damage was applied to the target
     dt |-> 0,                  \* ... in a tick of this dt
     destroyed |-> FALSE,       \* ... and returned True
     completed |-> FALSE,       \* complete_mining ran
     place_called |-> FALSE,    \* place_block ran
     placed |-> FALSE,          \* place_block replaced a block
     call_xy |-> <<0, 0>>,      \* coordinates passed to get_block / replace_block
     call_type |-> NoType,      \* type passed to replace_block
     ret_ok |-> FALSE,          \* value replace_block returned
     ret_block |-> NoBlock]     \* value get_block returned

Begin(op) == [Cur EXCEPT !.ev = Ev0(op)]

OrientationOf(key) ==
    CASE key = K_a -> "west"
      [] key = K_d -> "east"
      [] key = K_w -> "north"
      [] key = K_s -> "south"

get_target_position(s) ==
    LET dx == CASE s.orientation = "west" -> -1
                [] s.orientation = "east" -> 1
                [] OTHER -> 0
        dy == CASE s.orientation = "north" -> -1
                [] s.orientation = "south" -> 1
                [] OTHER -> 0
    IN  <<s.world_x + dx, s.world_y + dy>>

stop_mining(s) ==
    LET t == s.mining_target
        Reset(chs, target_block) ==
            IF target_block # NoBlock
            THEN [s EXCEPT !.chunks = SetBlock(chs, t[1], t[2],
                                               reset_health(target_block)),
                           !.ev.stop_target = t,
                           !.ev.stop_health = target_block.current_health]
            ELSE [s EXCEPT !.chunks = chs, !.ev.stop_target = t]
        s1 == IF s.is_mining /\ s.mining_target # None
              THEN Reset(get_block_chunks(s.chunks, t[1], t[2]),
                         get_block(s.chunks, t[1], t[2]))
              ELSE s
    IN  [s1 EXCEPT !.is_mining = FALSE, !.mining_target = None]

\* slip: a move never stops the session
StopOnMove_never(s) == s

StopOnMove(s) == IF s.is_mining THEN stop_mining(s) ELSE s

\* slip: the walkable check is missing
move_ignores_walkable(s, dx, dy) ==
    LET new_x == s.world_x + dx
        new_y == s.world_y + dy
        Step(target_block, s0) ==
            IF target_block # NoBlock
            THEN StopOnMove([s0 EXCEPT !.world_x = new_x, !.world_y = new_y,
                                       !.ev.moved = TRUE])
            ELSE s0
    IN  Step(get_block(s.chunks, new_x, new_y),
             [s EXCEPT !.chunks = get_block_chunks(s.chunks, new_x, new_y),
                       !.ev.move_called = TRUE,
                       !.ev.move_d = <<dx, dy>>])

\* slip: only water stops the player
move_unless_water(s, dx, dy) ==
    LET new_x == s.world_x + dx
        new_y == s.world_y + dy
        Step(target_block, s0) ==
            IF target_block # NoBlock /\ target_block.type # "water"
            THEN StopOnMove([s0 EXCEPT !.world_x = new_x, !.world_y = new_y,
                                       !.ev.moved = TRUE])
            ELSE s0
    IN  Step(get_block(s.chunks, new_x, new_y),
             [s EXCEPT !.chunks = get_block_chunks(s.chunks, new_x, new_y),
                       !.ev.move_called = TRUE,
                       !.ev.move_d = <<dx, dy>>])

\* move: the state after the call; s.ev.moved is the value it returns
move(s, dx, dy) ==
    LET new_x == s.world_x + dx
        new_y == s.world_y + dy
        Step(target_block, s0) ==
            IF target_block # NoBlock /\ TypeWalkable(target_block.type)
            THEN StopOnMove([s0 EXCEPT !.world_x = new_x, !.world_y = new_y,
                                       !.ev.moved = TRUE])
            ELSE s0
    IN  Step(get_block(s.chunks, new_x, new_y),
             [s EXCEPT !.chunks = get_block_chunks(s.chunks, new_x, new_y),
                       !.ev.move_called = TRUE,
                       !.ev.move_d = <<dx, dy>>])

\* the key process_movement's if/elif chain picks among the held keys
MovementChoice(keys) ==
    IF K_w \in keys THEN K_w
    ELSE IF K_s \in keys THEN K_s
    ELSE IF K_a \in keys THEN K_a
    ELSE IF K_d \in keys THEN K_d
    ELSE "none"

\* slip: the move does not wait for move_interval
process_movement_no_wait(s, dt) ==
    LET s1 == [s EXCEPT !.movement_timer = @ + dt]
        key == MovementChoice(s1.pressed_keys)
        dx == CASE key = K_a -> -1 [] key = K_d -> 1 [] OTHER -> 0
        dy == CASE key = K_w -> -1 [] key = K_s -> 1 [] OTHER -> 0
        ResetTimer(s2) == IF s2.ev.moved THEN [s2 EXCEPT !.movement_timer = 0] ELSE s2
    IN  IF key # "none" /\ s1.orientation = OrientationOf(key)
        THEN ResetTimer(move(s1, dx, dy))
        ELSE s1

process_movement(s, dt) ==
    LET s1 == [s EXCEPT !.movement_timer = @ + dt]
        key == MovementChoice(s1.pressed_keys)
        dx == CASE key = K_a -> -1 [] key = K_d -> 1 [] OTHER -> 0
        dy == CASE key = K_w -> -1 [] key = K_s -> 1 [] OTHER -> 0
        ResetTimer(s2) == IF s2.ev.moved THEN [s2 EXCEPT !.movement_timer = 0] ELSE s2
    IN  IF s1.movement_timer < MoveInterval
        THEN s1
        ELSE IF key # "none" /\ s1.orientation = OrientationOf(key)
        THEN ResetTimer(move(s1, dx, dy))
        ELSE s1

\* slip: the minable check is missing
start_mining_any_block(s) ==
    LET t == get_target_position(s)
        Start(target_block, s0) ==
            IF target_block # NoBlock
            THEN [s0 EXCEPT !.is_mining = TRUE, !.mining_target = t]
            ELSE s0
    IN  Start(get_block(s.chunks, t[1], t[2]),
              [s EXCEPT !.chunks = get_block_chunks(s.chunks, t[1], t[2]),
                        !.ev.start_called = TRUE])

start_mining(s) ==
    LET t == get_target_position(s)
        Start(target_block, s0) ==
            IF target_block # NoBlock /\ TypeMinable(target_block.type)
            THEN [s0 EXCEPT !.is_mining = TRUE, !.mining_target = t]
            ELSE s0
    IN  Start(get_block(s.chunks, t[1], t[2]),
              [s EXCEPT !.chunks = get_block_chunks(s.chunks, t[1], t[2]),
                        !.ev.start_called = TRUE])

add_to_inventory(inv, block_type) ==
    IF \E i \in 1..Len(inv) : inv[i].type = block_type
    THEN [i \in 1..Len(inv) |->
            IF inv[i].type = block_type
            THEN [inv[i] EXCEPT !.count = @ + 1]
            ELSE inv[i]]
    ELSE Append(inv, [type |-> block_type, count |-> 1])

\* slip: the session stays active after the completion
complete_mining_keeps_session(s, target_x, target_y, target_block) ==
    [s EXCEPT !.inventory = IF MiningResult(target_block.type) # NoType
                            THEN add_to_inventory(s.inventory,
                                                  MiningResult(target_block.type))
                            ELSE s.inventory,
              !.chunks = replace_block(s.chunks, target_x, target_y,
                                       ReplacementBlock(target_block.type)),
              !.just_finished_mining = TRUE,
              !.ev.completed = TRUE]

\* slip: the destroyed block is left in the store
complete_mining_leaves_block(s, target_x, target_y, target_block) ==
    [s EXCEPT !.inventory = IF MiningResult(target_block.type) # NoType
                            THEN add_to_inventory(s.inventory,
                                                  MiningResult(target_block.type))
                            ELSE s.inventory,
              !.is_mining = FALSE,
              !.mining_target = None,
              !.just_finished_mining = TRUE,
              !.ev.completed = TRUE]

\* slip: the target is not cleared on completion
complete_mining_keeps_target(s, target_x, target_y, target_block) ==
    [s EXCEPT !.inventory = IF MiningResult(target_block.type) # NoType
                            THEN add_to_inventory(s.inventory,
                                                  MiningResult(target_block.type))
                            ELSE s.inventory,
              !.chunks = replace_block(s.chunks, target_x, target_y,
                                       ReplacementBlock(target_block.type)),
              !.is_mining = FALSE,
              !.just_finished_mining = TRUE,
              !.ev.completed = TRUE]

complete_mining(s, target_x, target_y, target_block) ==
    LET mining_result == MiningResult(target_block.type)
        inv == IF mining_result # NoType
               THEN add_to_inventory(s.inventory, mining_result)
               ELSE s.inventory
        replacement_type == ReplacementBlock(target_block.type)
    IN  [s EXCEPT !.inventory = inv,
                  !.chunks = replace_block(s.chunks, target_x, target_y, replacement_type),
                  !.is_mining = FALSE,
                  !.mining_target = None,
                  !.just_finished_mining = TRUE,
                  !.ev.completed = TRUE]

\* slip: every tick completes the mining, destroyed or not
process_mining_completes_early(s, dt) ==
    LET t == s.mining_target
        damage == MiningDamageRate * dt
        Finish(r, s1) ==
            complete_mining(s1, t[1], t[2], r.block)
        Hit(r, s0) ==
            Finish(r, [s0 EXCEPT !.chunks = SetBlock(s0.chunks, t[1], t[2], r.block),
                                 !.ev.damaged = TRUE,
                                 !.ev.dt = dt,
                                 !.ev.destroyed = r.destroyed])
        Tick(target_block, s0) ==
            IF target_block = NoBlock \/ ~TypeMinable(target_block.type)
            THEN stop_mining(s0)
            ELSE Hit(take_damage(target_block, damage), s0)
    IN  IF s.mining_target = None
        THEN s
        ELSE Tick(get_block(s.chunks, t[1], t[2]),
                  [s EXCEPT !.chunks = get_block_chunks(s.chunks, t[1], t[2])])

\* slip: the damage of a tick does not depend on dt
process_mining_ignores_dt(s, dt) ==
    LET t == s.mining_target
        damage == MiningDamageRate
        Finish(r, s1) ==
            IF r.destroyed
            THEN complete_mining(s1, t[1], t[2], r.block)
            ELSE s1
        Hit(r, s0) ==
            Finish(r, [s0 EXCEPT !.chunks = SetBlock(s0.chunks, t[1], t[2], r.block),
                                 !.ev.damaged = TRUE,
                                 !.ev.dt = dt,
                                 !.ev.destroyed = r.destroyed])
        Tick(target_block, s0) ==
            IF target_block = NoBlock \/ ~TypeMinable(target_block.type)
            THEN stop_mining(s0)
            ELSE Hit(take_damage(target_block, damage), s0)
    IN  IF s.mining_target = None
        THEN s
        ELSE Tick(get_block(s.chunks, t[1], t[2]),
                  [s EXCEPT !.chunks = get_block_chunks(s.chunks, t[1], t[2])])

process_mining(s, dt) ==
    LET t == s.mining_target
        damage == MiningDamageRate * dt
        Finish(r, s1) ==
            IF r.destroyed
            THEN complete_mining(s1, t[1], t[2], r.block)
            ELSE s1
        Hit(r, s0) ==
            Finish(r, [s0 EXCEPT !.chunks = SetBlock(s0.chunks, t[1], t[2], r.block),
                                 !.ev.damaged = TRUE,
                                 !.ev.dt = dt,
                                 !.ev.destroyed = r.destroyed])
        Tick(target_block, s0) ==
            IF target_block = NoBlock \/ ~TypeMinable(target_block.type)
            THEN stop_mining(s0)
            ELSE Hit(take_damage(target_block, damage), s0)
    IN  IF s.mining_target = None
        THEN s
        ELSE Tick(get_block(s.chunks, t[1], t[2]),
                  [s EXCEPT !.chunks = get_block_chunks(s.chunks, t[1], t[2])])

get_top_inventory_items(inv, count) == SubSeq(inv, 1, Min(count, Len(inv)))

get_active_block_type(s) ==
    LET top_items == get_top_inventory_items(s.inventory, 5)
    IN  IF 0 <= s.active_slot /\ s.active_slot < Len(top_items)
        THEN top_items[s.active_slot + 1].type
        ELSE NoType

InventoryCount(inv, block_type) ==
    IF \E i \in 1..Len(inv) : inv[i].type = block_type
    THEN inv[CHOOSE i \in 1..Len(inv) : inv[i].type = block_type].count
    ELSE 0

\* slip: the entry stays in the inventory at count zero
RemoveOne_keeps_entry(inv, block_type) ==
    [i \in 1..Len(inv) |->
        IF inv[i].type = block_type
        THEN [inv[i] EXCEPT !.count = @ - 1]
        ELSE inv[i]]

\* slip: the placed block stays in the inventory
RemoveOne_none(inv, block_type) == inv

\* inventory[block_type] -= 1, and del inventory[block_type] at zero
RemoveOne(inv, block_type) ==
    LET dec == [i \in 1..Len(inv) |->
                  IF inv[i].type = block_type
                  THEN [inv[i] EXCEPT !.count = @ - 1]
                  ELSE inv[i]]
    IN  SelectSeq(dec, LAMBDA e : ~(e.type = block_type /\ e.count = 0))

place_block(s) ==
    LET t == get_target_position(s)
        block_type == get_active_block_type(s)
        Place(target_block, s0) ==
            IF block_type # NoType /\ target_block # NoBlock /\ target_block.walkable
            THEN IF InventoryCount(s0.inventory, block_type) > 0
                 THEN [s0 EXCEPT !.chunks = replace_block(s0.chunks, t[1], t[2],
                                                          block_type),
                                 !.inventory = RemoveOne(s0.inventory, block_type),
                                 !.ev.placed = TRUE]
                 ELSE s0
            ELSE s0
    IN  Place(get_block(s.chunks, t[1], t[2]),
              [s EXCEPT !.chunks = get_block_chunks(s.chunks, t[1], t[2]),
                        !.ev.place_called = TRUE])

SlotOf(key) ==
    CASE key = K_1 -> 0
      [] key = K_2 -> 1
      [] key = K_3 -> 2
      [] key = K_4 -> 3
      [] key = K_5 -> 4

handle_keydown(s, key) ==
    IF key \in MovementKeys
    THEN LET s1 == [s EXCEPT !.pressed_keys = @ \cup {key}]
         IN  IF s1.orientation # OrientationOf(key)
             THEN [s1 EXCEPT !.orientation = OrientationOf(key),
                             !.movement_timer = 0]
             ELSE s1
    ELSE IF key = K_SPACE
    THEN start_mining(s)
    ELSE IF key \in SlotKeys
    THEN [s EXCEPT !.active_slot = SlotOf(key)]
    ELSE s

\* slip: the flag is not reset after the SPACE release
handle_keyup_keeps_flag(s, key) ==
    IF key \in MovementKeys
    THEN [s EXCEPT !.pressed_keys = @ \ {key}]
    ELSE IF key = K_SPACE
    THEN IF s.is_mining
         THEN stop_mining(s)
         ELSE IF ~s.just_finished_mining
         THEN place_block(s)
         ELSE s
    ELSE s

handle_keyup(s, key) ==
    IF key \in MovementKeys
    THEN [s EXCEPT !.pressed_keys = @ \ {key}]
    ELSE IF key = K_SPACE
    THEN [(IF s.is_mining
           THEN stop_mining(s)
           ELSE IF ~s.just_finished_mining
           THEN place_block(s)
           ELSE s) EXCEPT !.just_finished_mining = FALSE]
    ELSE s

update(s, dt) ==
    LET Mining(s1) == IF s1.is_mining /\ s1.mining_target # None
                      THEN process_mining(s1, dt)
                      ELSE s1
    IN  Mining(IF s.pressed_keys # {} THEN process_movement(s, dt) ELSE s)

update_state(s, dt) ==
    LET Generate(s1) ==
            [s1 EXCEPT !.chunks = _generate_chunks_around_player(s1.chunks, s1.world_x,
                                                                 s1.world_y)]
    IN  Generate(update(s, dt))

\* Game.chunks after _generate_chunks_around_player_extended
_generate_chunks_around_player_extended(s) ==
    LET bounds == get_visible_bounds(s)
        chunk_left == bounds[1] \div ChunkSize - 1
        chunk_right == bounds[2] \div ChunkSize + 1
        chunk_top == bounds[3] \div ChunkSize - 1
        chunk_bottom == bounds[4] \div ChunkSize + 1
        rect == (chunk_left..chunk_right) \X (chunk_top..chunk_bottom)
    IN  [k \in (DOMAIN s.chunks) \cup rect |->
            IF k \in DOMAIN s.chunks THEN s.chunks[k] ELSE NewChunk(k[1], k[2])]

handle_window_resize(s, new_width, new_height) ==
    LET Generate(s1) ==
            [s1 EXCEPT !.chunks = _generate_chunks_around_player_extended(s1)]
    IN  Generate([s EXCEPT !.window_width = new_width,
                           !.window_height = new_height])

----------------------------------------------------------------------------
(* WorldStorage.  The JSON file is the dict save_world builds: its keys    *)
(* are the strings f"{x},{y}", modelled as sequences of characters, which  *)
(* load_world splits at the comma and parses with int().  BlockType        *)
(* members are their values throughout the model, so .value and            *)
(* BlockType(value) do not show; json writes a float with repr, which      *)
(* reads back as the same float.                                           *)

DigitChars == <<"0", "1", "2", "3", "4", "5", "6", "7", "8", "9">>

\* str(n) for n >= 0
RECURSIVE FormatNat(_)
FormatNat(n) ==
    IF n < 10 THEN <<DigitChars[n + 1]>>
    ELSE Append(FormatNat(n \div 10), DigitChars[(n % 10) + 1])

\* str(n)
FormatInt(n) == IF n < 0 THEN <<"-">> \o FormatNat(0 - n) ELSE FormatNat(n)

\* f"{x},{y}"
FormatKey(x, y) == FormatInt(x) \o <<",">> \o FormatInt(y)

RECURSIVE ParseNat(_)
ParseNat(str) ==
    IF Len(str) = 1
    THEN (CHOOSE d \in 0..9 : DigitChars[d + 1] = str[1])
    ELSE 10 * ParseNat(SubSeq(str, 1, Len(str) - 1))
            + (CHOOSE d \in 0..9 : DigitChars[d + 1] = str[Len(str)])

\* int(str)
ParseInt(str) == IF str[1] = "-" THEN 0 - ParseNat(Tail(str)) ELSE ParseNat(str)

\* map(int, key.split(","))
ParseKey(key) ==
    LET comma == CHOOSE i \in 1..Len(key) : key[i] = ","
    IN  <<ParseInt(SubSeq(key, 1, comma - 1)), ParseInt(SubSeq(key, comma + 1, Len(key)))>>

\* the dict save_world hands to json.dump
save_world(s, seed) ==
    [player |-> [world_x |-> s.world_x, world_y |-> s.world_y,
                 orientation |-> s.orientation, inventory |-> s.inventory,
                 active_slot |-> s.active_slot],
     chunks |-> [chunk_key \in {FormatKey(k[1], k[2]) : k \in DOMAIN s.chunks} |->
                    LET chunk == s.chunks[ParseKey(chunk_key)]
                    IN  [block_key \in {FormatKey(l[1], l[2]) : l \in DOMAIN chunk} |->
                            [type |-> chunk[ParseKey(block_key)].type,
                             current_health |->
                                 chunk[ParseKey(block_key)].current_health]]],
     terrain_seed |-> seed]

\* slip: the health of a loaded block is the full health of its type
LoadBlock_full_health(block_data) == Block(block_data.type)

\* Block(block_type) with current_health set from the file
LoadBlock(block_data) ==
    [Block(block_data.type) EXCEPT !.current_health = block_data.current_health]

\* the chunks load_world restores from the file
LoadChunks(chunks_data) ==
    [k \in {ParseKey(chunk_key) : chunk_key \in DOMAIN chunks_data} |->
        LET chunk_data == chunks_data[FormatKey(k[1], k[2])]
        IN  [l \in {ParseKey(block_key) : block_key \in DOMAIN chunk_data} |->
                LoadBlock(chunk_data[FormatKey(l[1], l[2])])]]

\* the game load_world returns for the file world_data: a new game (new
\* Player, new Camera) with the player's saved fields, the saved chunks and
\* the chunks missing around the player
load_world(s, world_data) ==
    [s EXCEPT !.world_x = world_data.player.world_x,
              !.world_y = world_data.player.world_y,
              !.orientation = world_data.player.orientation,
              !.inventory = world_data.player.inventory,
              !.active_slot = world_data.player.active_slot,
              !.is_mining = FALSE,
              !.mining_target = None,
              !.just_finished_mining = FALSE,
              !.pressed_keys = {},
              !.movement_timer = 0,
              !.window_width = WINDOW_SIZE[1],
              !.window_height = WINDOW_SIZE[2],
              !.cam_x = CamAt(0),
              !.cam_y = CamAt(0),
              !.chunks = _generate_chunks_around_player(
                             LoadChunks(world_data.chunks),
                             world_data.player.world_x, world_data.player.world_y)]

----------------------------------------------------------------------------
(* State machine *)

Set(s) ==
    /\ world_x' = s.world_x
    /\ world_y' = s.world_y
    /\ orientation' = s.orientation
    /\ inventory' = s.inventory
    /\ active_slot' = s.active_slot
    /\ is_mining' = s.is_mining
    /\ mining_target' = s.mining_target
    /\ just_finished_mining' = s.just_finished_mining
    /\ pressed_keys' = s.pressed_keys
    /\ movement_timer' = s.movement_timer
    /\ chunks' = s.chunks
    /\ window_width' = s.window_width
    /\ window_height' = s.window_height
    /\ cam_x' = s.cam_x
    /\ cam_y' = s.cam_y
    /\ since_completion' = IF s.ev.completed THEN TRUE
                           ELSE IF s.ev.op \in {"keyup_space", "load_world", "new_game"}
                           THEN FALSE
                           ELSE since_completion
    /\ session_dt' = IF ~s.is_mining \/ ~is_mining \/ s.mining_target # mining_target
                     THEN 0
                     ELSE IF s.ev.damaged THEN session_dt + s.ev.dt
                     ELSE session_dt
    /\ ev' = s.ev

blockVars == <<blk, blk_ret, blk_hist, blk_rets>>

appVars == <<game_state, has_game, current_world_name, current_menu, selected_option,
             save_world_name, saves, held, press_mined>>

configVars == <<cfg, gen_cfg, cfg_ev, adjust_calls>>

terrainVars == <<rng, gen_seen, gen_last, configVars>>

\* the cells the terrain generators are asked for in SpecTerrain
TerrainCells == {<<0, 0>>, <<0, -1>>, <<-1, 0>>, <<1, 0>>, <<0, 1>>}

\* two generators constructed with the same seed
Generators == {1, 2}

\* states the random module may have been left in by earlier use
RngInits == {random_seed(0), AfterDraw(random_seed(41))}

\* no generate_block_type call made yet
InitTerrain ==
    /\ gen_seen = [c \in TerrainCells |-> None]
    /\ gen_last = None

\* the module-level DEFAULT_CONFIG and the generator create_terrain_generator
\* builds on it
InitConfig ==
    /\ cfg = [id \in ConfigIds |-> TerrainConfig]
    /\ gen_cfg = DEFAULT_CONFIG
    /\ cfg_ev = None
    /\ adjust_calls = 0
    /\ saved = None

\* main() with a world being played and no key down
InitApp ==
    /\ game_state = "playing"
    /\ has_game = TRUE
    /\ current_world_name = None
    /\ current_menu = "main"
    /\ selected_option = 0
    /\ save_world_name = <<>>
    /\ saves = <<>>
    /\ held = {}
    /\ press_mined = FALSE

gameVars == <<world_x, world_y, orientation, inventory, active_slot, is_mining,
              mining_target, just_finished_mining, pressed_keys, movement_timer,
              chunks, window_width, window_height, cam_x, cam_y, since_completion,
              session_dt,
              ev>>

\* Player() and Camera() inside Game(terrain_seed)
InitGame ==
    /\ terrain_seed \in Seeds
    /\ window_width = WINDOW_SIZE[1]
    /\ window_height = WINDOW_SIZE[2]
    /\ cam_x = CamAt(0)
    /\ cam_y = CamAt(0)
    /\ world_x = 0
    /\ world_y = 0
    /\ orientation = "north"
    /\ inventory = <<>>
    /\ active_slot = 0
    /\ is_mining = FALSE
    /\ mining_target = None
    /\ just_finished_mining = FALSE
    /\ pressed_keys = {}
    /\ movement_timer = 0
    /\ chunks = _generate_chunks_around_player(<<>>, 0, 0)
    /\ since_completion = FALSE
    /\ session_dt = 0
    /\ ev = Ev0("call")

Init ==
    /\ track_all = FALSE
    /\ InitConfig
    /\ InitApp
    /\ InitGame
    /\ rng = random_seed(0)
    /\ InitTerrain
    /\ blk = Block("wood")
    /\ blk_ret = FALSE
    /\ blk_hist = <<>>
    /\ blk_rets = <<>>

\* main loop: KEYDOWN event while playing
KeyDown(key) ==
    /\ key \in MovementKeys => Cardinality(pressed_keys \cup {key}) <= MaxHeld
    /\ Set(handle_keydown(Begin("call"), key))
    /\ UNCHANGED <<terrain_seed, track_all, appVars, terrainVars, saved, blockVars>>

\* main loop: KEYUP event while playing
KeyUp(key) ==
    /\ Set(handle_keyup(Begin(IF key = K_SPACE THEN "keyup_space" ELSE "call"), key))
    /\ UNCHANGED <<terrain_seed, track_all, appVars, terrainVars, saved, blockVars>>

\* main loop: one frame
UpdateState(dt) ==
    /\ pressed_keys # {} => movement_timer + dt <= MaxTimer
    /\ LET Frame(s1) ==
               \E cx \in camera_update(s1.cam_x, s1.world_x),
                  cy \in camera_update(s1.cam_y, s1.world_y) :
                   Set([s1 EXCEPT !.cam_x = cx, !.cam_y = cy])
       IN  Frame(update_state(Begin("update_state"), dt))
    /\ UNCHANGED <<terrain_seed, track_all, appVars, terrainVars, saved, blockVars>>

Next ==
    \/ \E key \in InputKeys : KeyDown(key)
    \/ \E key \in InputKeys : KeyUp(key)
    \/ \E dt \in DtSet : UpdateState(dt)

Spec == Init /\ [][Next]_vars

----------------------------------------------------------------------------
(* The main loop with the pause menu's save and the main menu's load.  What *)
(* load_world builds depends on the file alone, so the game is followed up  *)
(* to the save and the file is loaded as it was written.                    *)

\* main loop: world_manager.save_world(game, current_world_name)
SaveWorld ==
    /\ saved = None
    /\ saved' = save_world(Cur, terrain_seed)
    /\ UNCHANGED <<terrain_seed, track_all, appVars, terrainVars, gameVars, blockVars>>

\* main loop: game = world_manager.load_world(data)
LoadWorld ==
    /\ saved # None
    /\ ev.op # "load_world"
    /\ terrain_seed' = saved.terrain_seed
    /\ LET Loaded(s) == Set([s EXCEPT !.ev = Ev0("load_world")])
       IN  Loaded(load_world(Cur, saved))
    /\ UNCHANGED <<track_all, appVars, terrainVars, saved, blockVars>>

\* playing, before the save
Play == saved = None /\ Next

NextStorage ==
    \/ Play
    \/ SaveWorld
    \/ LoadWorld

SpecStorage == Init /\ [][NextStorage]_vars

----------------------------------------------------------------------------
(* The main loop with frames shorter and longer than move_interval and up  *)
(* to MaxPressed movement keys held at once.  The short frames are taken   *)
(* while the player is not mining, so that a block's health passes through *)
(* few values; Spec follows mining.                                        *)

MaxPressed == 2
MaxMoveTimer == 2

\* frame times (1/12 s): half of move_interval, and long enough to move at
\* once, to mine the tree in one frame and the stone in two
FrameDts == {1, 30}

\* main loop: KEYDOWN of a movement key
PressKey(key) ==
    /\ Cardinality(pressed_keys \cup {key}) <= MaxPressed
    /\ Set(handle_keydown(Begin("call"), key))
    /\ UNCHANGED <<terrain_seed, track_all, appVars, terrainVars, saved, blockVars>>

\* main loop: one frame; the observation keeps the frame's dt
Frame(dt) ==
    /\ is_mining => dt \in DtSet
    /\ pressed_keys # {} => movement_timer <= MaxMoveTimer
    /\ LET Shown(s1) ==
               \E cx \in camera_update(s1.cam_x, s1.world_x),
                  cy \in camera_update(s1.cam_y, s1.world_y) :
                   Set([s1 EXCEPT !.cam_x = cx, !.cam_y = cy, !.ev.dt = dt])
       IN  Shown(update_state(Begin("update_state"), dt))
    /\ UNCHANGED <<terrain_seed, track_all, appVars, terrainVars, saved, blockVars>>

NextFrames ==
    \/ \E key \in MovementKeys : PressKey(key)
    \/ KeyDown(K_SPACE)
    \/ \E key \in MovementKeys \cup {K_SPACE} : KeyUp(key)
    \/ \E dt \in FrameDts : Frame(dt)

SpecFrames == Init /\ [][NextFrames]_vars

----------------------------------------------------------------------------
(* The application: main() with its menu, playing and paused states, the   *)
(* MenuSystem and the WorldManager.  A key is a physical key: it goes down  *)
(* only when it is up and up only when it is down.  Text is a sequence of  *)
(* one-character strings.                                                  *)

K_ESCAPE == "K_ESCAPE"
K_RETURN == "K_RETURN"
K_UP == "K_UP"
K_DOWN == "K_DOWN"

MaxDown == 2            \* game keys held down at once
MaxName == 1            \* characters typed into the save-world name

\* the keys only the menus read; no handler reads their KEYUP, so each is a tap
MenuKeys == {K_ESCAPE, K_RETURN, K_UP, K_DOWN}

\* the keys the keyboard delivers to the application with its menus
AppKeys == {K_a, K_SPACE, K_ESCAPE, K_RETURN, K_UP, K_DOWN}

\* the keys the keyboard delivers in a session that is never paused
PlayKeys == {K_w, K_a, K_s, K_SPACE}

\* 32 <= key <= 126
Printable(key) == key \in MovementKeys \cup {K_SPACE} \cup SlotKeys

\* chr(key)
Chr(key) ==
    CASE key = K_w -> "w" [] key = K_a -> "a" [] key = K_s -> "s" [] key = K_d -> "d"
      [] key = K_SPACE -> " "
      [] key = K_1 -> "1" [] key = K_2 -> "2" [] key = K_3 -> "3"
      [] key = K_4 -> "4" [] key = K_5 -> "5"

\* ord(c) of the characters that occur in world names
Ord(c) ==
    CASE c = " " -> 32
      [] c = "1" -> 49 [] c = "2" -> 50 [] c = "3" -> 51 [] c = "4" -> 52 [] c = "5" -> 53
      [] c = "N" -> 78 [] c = "a" -> 97 [] c = "d" -> 100 [] c = "e" -> 101
      [] c = "n" -> 110 [] c = "o" -> 111 [] c = "s" -> 115 [] c = "w" -> 119

\* str.strip()
RECURSIVE strip(_)
strip(str) ==
    IF str = <<>> THEN str
    ELSE IF Head(str) = " " THEN strip(Tail(str))
    ELSE IF str[Len(str)] = " " THEN strip(SubSeq(str, 1, Len(str) - 1))
    ELSE str

\* str1 < str2
RECURSIVE StrLess(_, _)
StrLess(str1, str2) ==
    IF str2 = <<>> THEN FALSE
    ELSE IF str1 = <<>> THEN TRUE
    ELSE IF Ord(Head(str1)) # Ord(Head(str2)) THEN Ord(Head(str1)) < Ord(Head(str2))
    ELSE StrLess(Tail(str1), Tail(str2))

\* f"{world_name}" : a name, or None
NameStr(world_name) == IF world_name = None THEN <<"N", "o", "n", "e">> ELSE world_name

\* get_world_list(): the names of the files in the saves directory, sorted
get_world_list(dir) ==
    CHOOSE worlds \in [1..Cardinality(DOMAIN dir) -> DOMAIN dir] :
        \A i, j \in 1..Cardinality(DOMAIN dir) : i < j => StrLess(worlds[i], worlds[j])

\* what handle_event returns: None, a string, or a tuple (tag, data)
NoAction == [tuple |-> FALSE, tag |-> "None", data |-> None]
StrAction(tag) == [tuple |-> FALSE, tag |-> tag, data |-> None]
TupleAction(tag, data) == [tuple |-> TRUE, tag |-> tag, data |-> data]

\* action == "<str>" as Python evaluates it: a tuple equals no string
EqualsStr(action, str) == ~action.tuple /\ action.tag = str

\* the fields of the MenuSystem
Menu ==
    [current_menu |-> current_menu, selected_option |-> selected_option,
     save_world_name |-> save_world_name]

Returns(m, action) == [menu |-> m, action |-> action]

handle_main_menu_input(m, key) ==
    IF key = K_UP
    THEN Returns([m EXCEPT !.selected_option = Max(0, @ - 1)], NoAction)
    ELSE IF key = K_DOWN
    THEN Returns([m EXCEPT !.selected_option = Min(1, @ + 1)], NoAction)
    ELSE IF key = K_RETURN
    THEN IF m.selected_option = 0
         THEN Returns([m EXCEPT !.current_menu = "world_select",
                                !.selected_option = 0], NoAction)
         ELSE IF m.selected_option = 1
         THEN Returns(m, StrAction("quit"))
         ELSE Returns(m, NoAction)
    ELSE Returns(m, NoAction)

handle_world_select_input(m, key, dir) ==
    LET worlds == get_world_list(dir)
        max_options == Len(worlds) + 1
    IN  IF key = K_UP
        THEN Returns([m EXCEPT !.selected_option = Max(0, @ - 1)], NoAction)
        ELSE IF key = K_DOWN
        THEN Returns([m EXCEPT !.selected_option = Min(max_options - 1, @ + 1)],
                     NoAction)
        ELSE IF key = K_RETURN
        THEN IF m.selected_option = Len(worlds)
             THEN Returns(m, TupleAction("create_world", None))
             ELSE Returns(m, TupleAction("load_world", worlds[m.selected_option + 1]))
        ELSE IF key = K_ESCAPE
        THEN Returns([m EXCEPT !.current_menu = "main", !.selected_option = 0],
                     NoAction)
        ELSE Returns(m, NoAction)

handle_pause_menu_input(m, key) ==
    IF key = K_UP
    THEN Returns([m EXCEPT !.selected_option = Max(0, @ - 1)], NoAction)
    ELSE IF key = K_DOWN
    THEN Returns([m EXCEPT !.selected_option = Min(2, @ + 1)], NoAction)
    ELSE IF key = K_RETURN
    THEN CASE m.selected_option = 0 -> Returns(m, StrAction("resume"))
           [] m.selected_option = 1 ->
                Returns([m EXCEPT !.current_menu = "save_world",
                                  !.save_world_name = <<>>,
                                  !.selected_option = 0], NoAction)
           [] m.selected_option = 2 -> Returns(m, StrAction("exit_no_save"))
           [] OTHER -> Returns(m, NoAction)
    ELSE IF key = K_ESCAPE
    THEN Returns(m, StrAction("resume"))
    ELSE Returns(m, NoAction)

handle_save_world_input(m, key) ==
    IF key = K_RETURN /\ strip(m.save_world_name) # <<>>
    THEN Returns(m, TupleAction("save_and_exit", strip(m.save_world_name)))
    ELSE IF key = K_ESCAPE
    THEN Returns([m EXCEPT !.current_menu = "pause", !.save_world_name = <<>>,
                           !.selected_option = 1], NoAction)
    ELSE IF Printable(key) /\ Len(m.save_world_name) < 20
    THEN Returns([m EXCEPT !.save_world_name = Append(@, Chr(key))], NoAction)
    ELSE Returns(m, NoAction)

\* MenuSystem.handle_event for a KEYDOWN event
handle_event(m, key, dir) ==
    CASE m.current_menu = "main" -> handle_main_menu_input(m, key)
      [] m.current_menu = "world_select" -> handle_world_select_input(m, key, dir)
      [] m.current_menu = "pause" -> handle_pause_menu_input(m, key)
      [] m.current_menu = "save_world" -> handle_save_world_input(m, key)

show_pause_menu(m) == [m EXCEPT !.current_menu = "pause", !.selected_option = 0]

reset_to_main_menu(m) ==
    [m EXCEPT !.current_menu = "main", !.selected_option = 0, !.save_world_name = <<>>]

SetMenu(m) ==
    /\ current_menu' = m.current_menu
    /\ selected_option' = m.selected_option
    /\ save_world_name' = m.save_world_name

\* the file WorldManager.save_world leaves behind: json.dump raises on the
\* BlockType keys of a non-empty inventory after it has written the part of
\* the file before them, and save_world then returns False
SaveFile(s, seed) ==
    IF s.inventory = <<>>
    THEN [ok |-> TRUE, data |-> save_world(s, seed)]
    ELSE [ok |-> FALSE, data |-> None]

\* GameWorld(terrain_seed): a new Player, a new Camera, the chunks around
\* the origin
GameWorld(op) ==
    [world_x |-> 0, world_y |-> 0, orientation |-> "north",
     inventory |-> <<>>, active_slot |-> 0,
     is_mining |-> FALSE, mining_target |-> None,
     just_finished_mining |-> FALSE,
     pressed_keys |-> {}, movement_timer |-> 0,
     chunks |-> _generate_chunks_around_player(<<>>, 0, 0),
     window_width |-> WINDOW_SIZE[1], window_height |-> WINDOW_SIZE[2],
     cam_x |-> CamAt(0), cam_y |-> CamAt(0), ev |-> Ev0(op)]

\* game = None, game_state = "menu", menu reset
ToMenu(key) ==
    /\ game_state' = "menu"
    /\ has_game' = FALSE
    /\ current_world_name' = None
    /\ SetMenu(reset_to_main_menu(Menu))
    /\ Set(GameWorld(key))

\* KEYDOWN while game_state == "menu"
MenuKeyDown(key) ==
    LET r == handle_event(Menu, key, saves)
    IN  IF EqualsStr(r.action, "quit")
        THEN /\ game_state' = "exited"
             /\ SetMenu(r.menu)
             /\ Set(Begin(key))
             /\ UNCHANGED <<has_game, current_world_name, saves, terrain_seed>>
        ELSE IF r.action.tuple /\ r.action.tag = "load_world"
        THEN IF saves[r.action.data].ok
             THEN /\ Set([load_world(GameWorld("load_world"), saves[r.action.data].data)
                             EXCEPT !.ev = Ev0("load_world")])
                  /\ terrain_seed' = saves[r.action.data].data.terrain_seed
                  /\ has_game' = TRUE
                  /\ current_world_name' = r.action.data
                  /\ game_state' = "playing"
                  /\ SetMenu(reset_to_main_menu(r.menu))
                  /\ UNCHANGED saves
             ELSE /\ SetMenu(r.menu)
                  /\ Set(Begin(key))
                  /\ UNCHANGED <<game_state, has_game, current_world_name, saves,
                                 terrain_seed>>
        ELSE IF r.action.tuple /\ r.action.tag = "create_world"
        THEN \E seed \in Seeds :
                /\ terrain_seed' = seed
                /\ Set(GameWorld("new_game"))
                /\ saves' = [name \in DOMAIN saves \cup {NameStr(r.action.data)} |->
                                IF name = NameStr(r.action.data)
                                THEN SaveFile(GameWorld("new_game"), seed)
                                ELSE saves[name]]
                /\ has_game' = TRUE
                /\ current_world_name' = r.action.data
                /\ game_state' = "playing"
                /\ SetMenu(reset_to_main_menu(r.menu))
        ELSE /\ SetMenu(r.menu)
             /\ Set(Begin(key))
             /\ UNCHANGED <<game_state, has_game, current_world_name, saves,
                            terrain_seed>>

\* KEYDOWN while game_state == "playing"
PlayingKeyDown(key) ==
    /\ IF key = K_ESCAPE
       THEN /\ SetMenu(show_pause_menu(Menu))
            /\ game_state' = "paused"
            /\ Set(Begin(key))
       ELSE /\ key \in MovementKeys => Cardinality(pressed_keys \cup {key}) <= MaxHeld
            /\ Set(handle_keydown(Begin("call"), key))
            /\ UNCHANGED <<game_state, current_menu, selected_option, save_world_name>>
    /\ UNCHANGED <<has_game, current_world_name, saves, terrain_seed>>

\* KEYDOWN while game_state == "paused"
PausedKeyDown(key) ==
    LET r == handle_event(Menu, key, saves)
    IN  IF EqualsStr(r.action, "resume")
        THEN /\ game_state' = "playing"
             /\ SetMenu(r.menu)
             /\ Set(Begin(key))
             /\ UNCHANGED <<has_game, current_world_name, saves, terrain_seed>>
        ELSE IF EqualsStr(r.action, "save_and_exit")
        THEN /\ saves' = IF current_world_name # None
                         THEN [name \in DOMAIN saves \cup {NameStr(current_world_name)} |->
                                  IF name = NameStr(current_world_name)
                                  THEN SaveFile(Cur, terrain_seed)
                                  ELSE saves[name]]
                         ELSE saves
             /\ ToMenu(key)
             /\ UNCHANGED terrain_seed
        ELSE IF EqualsStr(r.action, "exit_no_save")
        THEN /\ ToMenu(key)
             /\ UNCHANGED <<saves, terrain_seed>>
        ELSE /\ SetMenu(r.menu)
             /\ Set(Begin(key))
             /\ UNCHANGED <<game_state, has_game, current_world_name, saves,
                            terrain_seed>>

\* the SPACE press just handled started a mining session on the faced cell
StartedSession == ev'.start_called /\ is_mining' /\ ~is_mining

\* main loop: a KEYDOWN event
AppKeyDown(key) ==
    /\ game_state # "exited"
    /\ key \notin held
    /\ key \notin MenuKeys => Cardinality(held) < MaxDown
    /\ (game_state = "paused" /\ current_menu = "save_world" /\ Printable(key))
           => Len(save_world_name) < MaxName
    /\ held' = IF key \in MenuKeys THEN held ELSE held \cup {key}
    /\ CASE game_state = "menu" -> MenuKeyDown(key)
         [] game_state = "playing" -> PlayingKeyDown(key)
         [] game_state = "paused" -> PausedKeyDown(key)
    /\ press_mined' = IF key = K_SPACE
                      THEN game_state = "playing" /\ StartedSession
                      ELSE press_mined
    /\ UNCHANGED <<track_all, terrainVars, saved, blockVars>>

\* main loop: a KEYUP event; it reaches the player only while playing
AppKeyUp(key) ==
    /\ game_state # "exited"
    /\ key \in held
    /\ held' = held \ {key}
    /\ IF game_state = "playing" /\ has_game
       THEN Set(handle_keyup(Begin(IF key = K_SPACE THEN "keyup_space" ELSE "call"), key))
       ELSE UNCHANGED gameVars
    /\ press_mined' = IF key = K_SPACE THEN FALSE ELSE press_mined
    /\ UNCHANGED <<game_state, has_game, current_world_name, current_menu,
                   selected_option, save_world_name, saves>>
    /\ UNCHANGED <<terrain_seed, track_all, terrainVars, saved, blockVars>>

\* main loop: the part of an iteration after the events, while playing
AppFrame(dt) ==
    /\ game_state = "playing" /\ has_game
    /\ pressed_keys # {} => movement_timer + dt <= MaxTimer
    /\ LET Shown(s1) ==
               \E cx \in camera_update(s1.cam_x, s1.world_x),
                  cy \in camera_update(s1.cam_y, s1.world_y) :
                   Set([s1 EXCEPT !.cam_x = cx, !.cam_y = cy])
       IN  Shown(update_state(Begin("update_state"), dt))
    /\ UNCHANGED <<terrain_seed, track_all, appVars, terrainVars, saved, blockVars>>

\* frame time while playing: 2.5 s
AppDts == {30}

\* main() starts in the menu with no game
InitMain ==
    /\ track_all = FALSE
    /\ InitConfig
    /\ InitGame
    /\ game_state = "menu"
    /\ has_game = FALSE
    /\ current_world_name = None
    /\ current_menu = "main"
    /\ selected_option = 0
    /\ save_world_name = <<>>
    /\ saves = <<>>
    /\ held = {}
    /\ press_mined = FALSE
    /\ rng = random_seed(0)
    /\ InitTerrain
    /\ blk = Block("wood")
    /\ blk_ret = FALSE
    /\ blk_hist = <<>>
    /\ blk_rets = <<>>

NextApp ==
    \/ \E key \in AppKeys : AppKeyDown(key)
    \/ \E key \in AppKeys : AppKeyUp(key)
    \/ \E dt \in AppDts : AppFrame(dt)

SpecApp == InitMain /\ [][NextApp]_vars

\* a game being played, with the keys that are physically down recorded
NextPlay ==
    \/ \E key \in PlayKeys : AppKeyDown(key)
    \/ \E key \in PlayKeys : AppKeyUp(key)
    \/ \E dt \in AppDts : AppFrame(dt)

SpecPlay == Init /\ [][NextPlay]_vars

----------------------------------------------------------------------------
(* The Player methods called directly, as the unit tests do *)

Directions == {<<0, -1>>, <<0, 1>>, <<-1, 0>>, <<1, 0>>}

CallMove(d) ==
    /\ Set(move(Begin("move"), d[1], d[2]))
    /\ UNCHANGED <<terrain_seed, track_all, appVars, terrainVars, saved, blockVars>>

CallStartMining ==
    /\ Set(start_mining(Begin("call")))
    /\ UNCHANGED <<terrain_seed, track_all, appVars, terrainVars, saved, blockVars>>

CallStopMining ==
    /\ Set(stop_mining(Begin("call")))
    /\ UNCHANGED <<terrain_seed, track_all, appVars, terrainVars, saved, blockVars>>

CallProcessMining(dt) ==
    /\ Set(process_mining(Begin("call"), dt))
    /\ UNCHANGED <<terrain_seed, track_all, appVars, terrainVars, saved, blockVars>>

\* complete_mining(game, x, y, game.get_block(x, y)) with (x, y) the mining target
CallCompleteMining ==
    /\ mining_target # None
    /\ LET s == Begin("call")
           t == s.mining_target
           s0 == [s EXCEPT !.chunks = get_block_chunks(s.chunks, t[1], t[2])]
       IN  Set(complete_mining(s0, t[1], t[2], get_block(s.chunks, t[1], t[2])))
    /\ UNCHANGED <<terrain_seed, track_all, appVars, terrainVars, saved, blockVars>>

CallUpdate(dt) ==
    /\ pressed_keys # {} => movement_timer + dt <= MaxTimer
    /\ Set(update(Begin("call"), dt))
    /\ UNCHANGED <<terrain_seed, track_all, appVars, terrainVars, saved, blockVars>>

NextAPI ==
    \/ \E key \in InputKeys : KeyDown(key)
    \/ \E key \in InputKeys : KeyUp(key)
    \/ \E dt \in DtSet : CallUpdate(dt)
    \/ \E d \in Directions : CallMove(d)
    \/ CallStartMining
    \/ CallStopMining
    \/ \E dt \in DtSet : CallProcessMining(dt)
    \/ CallCompleteMining

SpecAPI == Init /\ [][NextAPI]_vars

----------------------------------------------------------------------------
(* The chunk store of a fresh Game read and written directly, every cell   *)
(* of every chunk stored                                                   *)

GetCells == {<<0, 0>>, <<-1, 0>>, <<-1, -1>>, <<48, 0>>, <<-33, -48>>}
ReplaceCells == {<<0, 0>>, <<48, 0>>}
ReplaceTypes == {"dirt", "stone", "wood"}

GetBlock(c) ==
    /\ Set([Begin("get_block") EXCEPT
                !.chunks = get_block_chunks(chunks, c[1], c[2]),
                !.ev.call_xy = c,
                !.ev.ret_block = get_block(chunks, c[1], c[2])])
    /\ UNCHANGED <<terrain_seed, track_all, appVars, terrainVars, saved, blockVars>>

ReplaceBlock(c, t) ==
    /\ Set([Begin("replace_block") EXCEPT
                !.chunks = replace_block(chunks, c[1], c[2], t),
                !.ev.call_xy = c,
                !.ev.call_type = t,
                !.ev.ret_ok = replace_block_ok(chunks, c[1], c[2])])
    /\ UNCHANGED <<terrain_seed, track_all, appVars, terrainVars, saved, blockVars>>

InitChunk ==
    /\ track_all = TRUE
    /\ InitConfig
    /\ InitApp
    /\ InitGame
    /\ rng = random_seed(0)
    /\ InitTerrain
    /\ blk = Block("wood")
    /\ blk_ret = FALSE
    /\ blk_hist = <<>>
    /\ blk_rets = <<>>

NextChunk ==
    \/ \E c \in GetCells : GetBlock(c)
    \/ \E c \in ReplaceCells, t \in ReplaceTypes : ReplaceBlock(c, t)

SpecChunk == InitChunk /\ [][NextChunk]_vars

----------------------------------------------------------------------------
(* One Game under reads, writes, player moves, frames and window resizes   *)

WindowSizes == {<<800, 600>>, <<3840, 2160>>}
FarCells == {<<48, 0>>}
NearCells == {<<-1, 0>>}
NearTypes == {"dirt", "stone"}

HandleWindowResize(size) ==
    /\ Set(handle_window_resize(Begin("resize"), size[1], size[2]))
    /\ UNCHANGED <<terrain_seed, track_all, appVars, terrainVars, saved, blockVars>>

NextGame ==
    \/ \E c \in FarCells \cup NearCells : GetBlock(c)
    \/ \E c \in NearCells, t \in NearTypes : ReplaceBlock(c, t)
    \/ \E d \in Directions : CallMove(d)
    \/ \E dt \in DtSet : UpdateState(dt)
    \/ \E size \in WindowSizes : HandleWindowResize(size)

SpecGame == Init /\ [][NextGame]_vars

----------------------------------------------------------------------------
(* Two terrain generators with the same seed, asked for cells in any       *)
(* order; the random module is global and shared                           *)

GenerateBlockType(g, c) ==
    /\ LET Call(res) ==
               /\ rng' = res.rng
               /\ gen_last' = [g |-> g, c |-> c, type |-> res.type]
               /\ gen_seen' = IF gen_seen[c] = None
                              THEN [gen_seen EXCEPT ![c] = [type |-> res.type, g |-> g]]
                              ELSE gen_seen
       IN  Call(generate_block_type_from(terrain_generator_v2, self_config, rng,
                                         terrain_seed, c[1], c[2]))
    /\ UNCHANGED <<terrain_seed, track_all, appVars, configVars, gameVars, saved, blockVars>>

InitGenerators ==
    /\ track_all = FALSE
    /\ InitConfig
    /\ InitApp
    /\ InitGame
    /\ rng \in RngInits
    /\ InitTerrain
    /\ blk = Block("wood")
    /\ blk_ret = FALSE
    /\ blk_hist = <<>>
    /\ blk_rets = <<>>

NextTerrain == \E g \in Generators, c \in TerrainCells : GenerateBlockType(g, c)

SpecTerrain == InitGenerators /\ [][NextTerrain]_vars

----------------------------------------------------------------------------
(* A terrain generator and the configuration objects: DEFAULT_CONFIG and   *)
(* one TerrainConfig() a caller builds, edits and hands to the generator;  *)
(* either may be tuned with auto_adjust_thresholds.  The generator keeps a *)
(* reference, so it sees later changes of the object it holds.             *)

\* assignments a caller makes to the fields of its TerrainConfig
Edits ==
    { [field |-> "threshold", i |-> 4, v |-> 88, names |-> {}],
      [field |-> "threshold", i |-> 1, v |-> 40, names |-> {}],
      [field |-> "threshold", i |-> 3, v |-> 35, names |-> {}],
      [field |-> "base_terrain", i |-> 4, v |-> 0, names |-> {"lava"}],
      [field |-> "base_terrain", i |-> 4, v |-> 0, names |-> {"dirt"}],
      [field |-> "stone_threshold", i |-> 0, v |-> 88, names |-> {}] }

\* measured distributions (percentages by type) handed to auto_adjust_thresholds
Distributions ==
    { [water |-> 100, sand |-> 0, grass |-> 0, stone |-> 0],
      [water |-> 0, sand |-> 10, grass |-> 70, stone |-> 14],
      [water |-> 25, sand |-> 10, grass |-> 35, stone |-> 42] }

\* the cells classified: one per base-noise value of the strip
QueryCells == {<<StripX + k, 0>> : k \in 0..5}

CfgEv0(op, id) ==
    [op |-> op, id |-> id, raised |-> FALSE, issues |-> {}, c |-> None,
     noise |-> 0, deep |-> FALSE, base |-> NoType]

\* config = TerrainConfig()
NewConfig ==
    /\ cfg' = [cfg EXCEPT !["custom"] = TerrainConfig]
    /\ cfg_ev' = CfgEv0("new", "custom")
    /\ UNCHANGED <<gen_cfg, adjust_calls>>
    /\ UNCHANGED <<terrain_seed, track_all, appVars, rng, gen_seen, gen_last, gameVars, saved, blockVars>>

\* config.base_layers[i].threshold = v and the like
EditConfig(e) ==
    /\ cfg' = [cfg EXCEPT !["custom"] =
                  CASE e.field = "threshold" ->
                           [@ EXCEPT !.base_layers[e.i].threshold = e.v]
                    [] e.field = "base_terrain" ->
                           [@ EXCEPT !.feature_rules[e.i].base_terrain = e.names]
                    [] OTHER ->
                           [@ EXCEPT !.noise_params.stone_threshold = e.v]]
    /\ cfg_ev' = CfgEv0("edit", "custom")
    /\ UNCHANGED <<gen_cfg, adjust_calls>>
    /\ UNCHANGED <<terrain_seed, track_all, appVars, rng, gen_seen, gen_last, gameVars, saved, blockVars>>

\* ConfigurableTerrainGenerator(config): on success the caller's generator
\* is the new one; on ValueError the caller keeps the generator it had
Construct(id) ==
    /\ LET Checked(issues) ==
               /\ gen_cfg' = IF issues # {} THEN gen_cfg ELSE id
               /\ cfg_ev' = [CfgEv0("construct", id) EXCEPT
                                !.raised = (issues # {}), !.issues = issues]
       IN  Checked(validate_configuration(cfg[id]))
    /\ UNCHANGED <<cfg, adjust_calls>>
    /\ UNCHANGED <<terrain_seed, track_all, appVars, rng, gen_seen, gen_last, gameVars, saved, blockVars>>

\* generator.update_configuration(config)
UpdateConfiguration(id) ==
    /\ LET Checked(issues) ==
               /\ gen_cfg' = IF issues # {} THEN gen_cfg ELSE id
               /\ cfg_ev' = [CfgEv0("update_configuration", id) EXCEPT
                                !.raised = (issues # {}), !.issues = issues]
       IN  Checked(validate_configuration(cfg[id]))
    /\ UNCHANGED <<cfg, adjust_calls>>
    /\ UNCHANGED <<terrain_seed, track_all, appVars, rng, gen_seen, gen_last, gameVars, saved, blockVars>>

\* config.auto_adjust_thresholds(actual_distribution)
AutoAdjustThresholds(id, actual_distribution) ==
    /\ adjust_calls < MaxAdjust
    /\ adjust_calls' = adjust_calls + 1
    /\ cfg' = [cfg EXCEPT ![id] = auto_adjust_thresholds(@, actual_distribution)]
    /\ cfg_ev' = CfgEv0("auto_adjust_thresholds", id)
    /\ UNCHANGED gen_cfg
    /\ UNCHANGED <<terrain_seed, track_all, appVars, rng, gen_seen, gen_last, gameVars, saved, blockVars>>

\* the generator classifies cell c
Classify(c) ==
    /\ cfg_ev' = [CfgEv0("classify", gen_cfg) EXCEPT
                     !.c = c,
                     !.noise = get_base_terrain_noise(self_config, terrain_seed, c[1], c[2]),
                     !.deep = is_deep_underground(self_config, terrain_seed, c[1], c[2]),
                     !.base = get_base_terrain_type(self_config, terrain_seed, c[1], c[2])]
    /\ UNCHANGED <<cfg, gen_cfg, adjust_calls>>
    /\ UNCHANGED <<terrain_seed, track_all, appVars, rng, gen_seen, gen_last, gameVars, saved, blockVars>>

NextConfig ==
    \/ NewConfig
    \/ \E e \in Edits : EditConfig(e)
    \/ \E id \in ConfigIds : Construct(id)
    \/ \E id \in ConfigIds : UpdateConfiguration(id)
    \/ \E id \in ConfigIds, d \in Distributions : AutoAdjustThresholds(id, d)
    \/ \E c \in QueryCells : Classify(c)

SpecConfig == Init /\ [][NextConfig]_vars

----------------------------------------------------------------------------
(* generate_block_type of terrain_generator.py asked for the cells of the  *)
(* strip, where every combination of base, feature and lava-pool noise and *)
(* several draw sequences occur                                            *)

StripColumns == 48
StripRows == {0, 1, 3, 6}
RuleCells == {<<StripX + k, y>> : k \in 0..(StripColumns - 1), y \in StripRows}

CallGenerateBlockType(c) ==
    /\ LET Call(res) ==
               /\ rng' = res.rng
               /\ gen_last' = [g |-> terrain_generator, c |-> c, type |-> res.type]
       IN  Call(generate_block_type_from(terrain_generator, self_config, rng,
                                         terrain_seed, c[1], c[2]))
    /\ UNCHANGED <<terrain_seed, track_all, appVars, gen_seen, configVars, gameVars, saved, blockVars>>

NextRules == \E c \in RuleCells : CallGenerateBlockType(c)

SpecRules == InitGenerators /\ [][NextRules]_vars

----------------------------------------------------------------------------
(* A stand-alone Block under take_damage / reset_health *)

InitBlock ==
    /\ track_all = FALSE
    /\ InitConfig
    /\ InitApp
    /\ InitGame
    /\ rng = random_seed(0)
    /\ InitTerrain
    /\ blk \in {Block(t) : t \in BlockTypes}
    /\ blk_ret = FALSE
    /\ blk_hist = <<>>
    /\ blk_rets = <<>>

TakeDamage(amount) ==
    /\ Len(blk_hist) < MaxHits
    /\ blk' = take_damage(blk, amount).block
    /\ blk_ret' = take_damage(blk, amount).destroyed
    /\ blk_hist' = Append(blk_hist, amount)
    /\ blk_rets' = Append(blk_rets, take_damage(blk, amount).destroyed)
    /\ UNCHANGED <<terrain_seed, track_all, appVars, terrainVars, saved, gameVars>>

NextBlock == \E amount \in DamageSet : TakeDamage(amount)

SpecBlock == InitBlock /\ [][NextBlock]_vars

----------------------------------------------------------------------------
(* Sanity of the model *)

\* every cell the player can read or write lies in the tracked window
WindowOK ==
    /\ world_x \in (1 - WindowRadius)..(WindowRadius - 1)
    /\ world_y \in (1 - WindowRadius)..(WindowRadius - 1)

----------------------------------------------------------------------------
(* Reading the chunk store in the properties *)

\* the stored cells, as <<chunk key, local key>>
Cells(chs) == UNION {{<<k, l>> : l \in DOMAIN chs[k]} : k \in DOMAIN chs}

CellOf(t) ==
    << <<ChunkCoord(t[1]), ChunkCoord(t[2])>>, <<LocalCoord(t[1]), LocalCoord(t[2])>> >>

BlockAtCell(chs, c) == chs[c[1]][c[2]]

BlockAt(chs, t) == BlockAtCell(chs, CellOf(t))

\* every cell stored in chs holds the same block in chs2
SameBlocks(chs, chs2) ==
    \A c \in Cells(chs) : c \in Cells(chs2) /\ BlockAtCell(chs2, c) = BlockAtCell(chs, c)

\* ... except possibly the cell of t
SameBlocksBut(chs, chs2, t) ==
    \A c \in Cells(chs) \ {CellOf(t)} :
        c \in Cells(chs2) /\ BlockAtCell(chs2, c) = BlockAtCell(chs, c)

RECURSIVE SumSeq(_)
SumSeq(q) == IF q = <<>> THEN 0 ELSE q[1] + SumSeq(Tail(q))

----------------------------------------------------------------------------
(* C1: in every state reachable through the Player operations, is_mining   *)
(* is true if and only if mining_target is not None.                       *)
C1_MiningIffTarget == is_mining <=> (mining_target # None)

\* a session that is active after a tick has damaged its target
C1_Witness == is_mining /\ mining_target # None /\ ev.damaged

----------------------------------------------------------------------------
(* C2 as stated: every movement attempt made while Mining(t) is active,    *)
(* successful or blocked, leaves the session Idle and the block at t at    *)
(* max_health.                                                             *)
C2_Original ==
    [][(ev'.move_called /\ is_mining) =>
          /\ ~is_mining'
          /\ mining_target' = None
          /\ BlockAt(chunks', mining_target).current_health
                = BlockAt(chunks', mining_target).max_health]_vars

(* C2 amended: a move made while Mining(t) is active stops mining exactly  *)
(* when it succeeds: a successful move runs stop_mining (session Idle, the *)
(* block at t back at max_health); a blocked move does not run stop_mining *)
(* and, called on its own, leaves position, session and every block        *)
(* unchanged.                                                              *)
C2_MoveStopsMiningIffMoved ==
    [][(ev'.move_called /\ is_mining) =>
          /\ ev'.moved =>
                /\ ev'.stop_target = mining_target
                /\ ~is_mining'
                /\ mining_target' = None
                /\ BlockAt(chunks', mining_target).current_health
                      = BlockAt(chunks', mining_target).max_health
          /\ ~ev'.moved =>
                /\ ev'.stop_target = None
                /\ world_x' = world_x /\ world_y' = world_y
                /\ ev'.op = "move" =>
                      /\ is_mining' /\ mining_target' = mining_target
                      /\ SameBlocks(chunks, chunks')]_vars

\* a successful move has just stopped a session whose block was damaged
C2_Witness ==
    /\ ev.move_called /\ ev.moved
    /\ ev.stop_target # None
    /\ ev.stop_health < BlockAt(chunks, ev.stop_target).max_health

----------------------------------------------------------------------------
(* C3: stop_mining on a session whose target took partial damage leaves    *)
(* the target block with current_health equal to max_health and the        *)
(* session Idle.                                                           *)
C3_StopRestoresHealth ==
    [][(ev'.stop_target # None) =>
          /\ ev'.stop_target = mining_target
          /\ BlockAt(chunks', mining_target).current_health
                = BlockAt(chunks', mining_target).max_health
          /\ BlockAt(chunks', mining_target).type = BlockAt(chunks, mining_target).type
          /\ ~is_mining'
          /\ mining_target' = None]_vars

\* the SPACE release has just stopped a session whose block was damaged
C3_Witness ==
    /\ ev.op = "keyup_space"
    /\ ev.stop_target # None
    /\ ev.stop_health > 0
    /\ ev.stop_health < BlockAt(chunks, ev.stop_target).max_health
    /\ BlockAt(chunks, ev.stop_target).current_health
          = BlockAt(chunks, ev.stop_target).max_health

----------------------------------------------------------------------------
(* C4 as stated: in every reachable state, any stored block whose          *)
(* current_health is below its max_health is the block at the player's     *)
(* current mining_target.                                                  *)
C4_Original ==
    \A c \in Cells(chunks) :
        BlockAtCell(chunks, c).current_health < BlockAtCell(chunks, c).max_health
            => (is_mining /\ mining_target # None /\ c = CellOf(mining_target))

----------------------------------------------------------------------------
(* C5: start_mining moves the session to Mining(facing cell) exactly when  *)
(* the block at the facing cell exists and is minable; otherwise it leaves *)
(* is_mining and mining_target as they were; in both cases no stored block *)
(* changes.                                                                *)
C5_StartMiningGuard ==
    [][ev'.start_called =>
          LET t == get_target_position(Cur)
              b == get_block(chunks, t[1], t[2])
          IN  /\ (b # NoBlock /\ TypeMinable(b.type)) =>
                    (is_mining' /\ mining_target' = t)
              /\ ~(b # NoBlock /\ TypeMinable(b.type)) =>
                    (is_mining' = is_mining /\ mining_target' = mining_target)
              /\ SameBlocks(chunks, chunks')
              /\ inventory' = inventory
              /\ world_x' = world_x /\ world_y' = world_y]_vars

\* SPACE was pressed facing a block that is not minable: still Idle
C5_Witness ==
    /\ ev.start_called
    /\ ~is_mining /\ mining_target = None
    /\ ~TypeMinable(BlockAt(chunks, get_target_position(Cur)).type)

----------------------------------------------------------------------------
(* C6: the completion path runs only in a tick whose take_damage on the    *)
(* target reported destroyed; in that step the inventory count of the      *)
(* type's mining_result rises by exactly one, the target cell becomes a    *)
(* full-health block of the type's replacement_block, and the session is   *)
(* Idle with just_finished_mining set.                                     *)
C6_CompletionStep ==
    [][ev'.completed =>
          /\ ev'.damaged /\ ev'.destroyed
          /\ is_mining /\ mining_target # None
          /\ LET t == mining_target
                 ty == BlockAt(chunks, t).type
             IN  /\ BlockAt(chunks, t).current_health - MiningDamageRate * ev'.dt <= 0
                 /\ MiningResult(ty) # NoType =>
                       InventoryCount(inventory', MiningResult(ty))
                          = InventoryCount(inventory, MiningResult(ty)) + 1
                 /\ \A u \in BlockTypes \ {MiningResult(ty)} :
                       InventoryCount(inventory', u) = InventoryCount(inventory, u)
                 /\ BlockAt(chunks', t) = Block(ReplacementBlock(ty))
                 /\ BlockAt(chunks', t).current_health = BlockAt(chunks', t).max_health
                 /\ SameBlocksBut(chunks, chunks', t)
          /\ ~is_mining'
          /\ mining_target' = None
          /\ just_finished_mining']_vars

\* an update has just completed the mining of a block
C6_Witness ==
    /\ ev.completed /\ ev.damaged /\ ev.destroyed
    /\ inventory # <<>>
    /\ just_finished_mining

----------------------------------------------------------------------------
(* C7: just_finished_mining is set exactly from a completion until the     *)
(* next SPACE release; that release never places a block and clears the    *)
(* flag; a SPACE release made with the flag clear and no session active    *)
(* does run place_block.                                                   *)
C7_OneShotFlag ==
    /\ [](just_finished_mining = since_completion)
    /\ [][(ev'.op = "keyup_space") =>
            /\ ~just_finished_mining'
            /\ since_completion =>
                  /\ ~ev'.place_called /\ ~ev'.placed
                  /\ SameBlocks(chunks, chunks') \/ ev'.stop_target # None
                  /\ inventory' = inventory
            /\ (~since_completion /\ ~is_mining) => ev'.place_called]_vars

\* the SPACE release after a completion: nothing stopped, nothing placed,
\* the mined item still in the inventory, the flag cleared
C7_Witness ==
    /\ ev.op = "keyup_space"
    /\ ev.stop_target = None /\ ~ev.place_called
    /\ inventory # <<>>
    /\ ~just_finished_mining

----------------------------------------------------------------------------
(* C8: an update in state Mining(t) whose take_damage does not destroy the *)
(* block subtracts exactly mining_damage_rate * dt from the health of the  *)
(* block at t; the session stays Mining(t) and position, orientation,      *)
(* inventory and every other block are unchanged.                          *)
C8_NonDestroyingTick ==
    [][(ev'.damaged /\ ~ev'.destroyed) =>
          /\ is_mining /\ mining_target # None
          /\ BlockAt(chunks', mining_target).current_health
                = BlockAt(chunks, mining_target).current_health
                     - MiningDamageRate * ev'.dt
          /\ BlockAt(chunks', mining_target).type = BlockAt(chunks, mining_target).type
          /\ BlockAt(chunks', mining_target).max_health
                = BlockAt(chunks, mining_target).max_health
          /\ SameBlocksBut(chunks, chunks', mining_target)
          /\ is_mining' /\ mining_target' = mining_target
          /\ world_x' = world_x /\ world_y' = world_y
          /\ orientation' = orientation
          /\ inventory' = inventory
          /\ active_slot' = active_slot
          /\ just_finished_mining' = just_finished_mining]_vars

\* a tick has just damaged the target without destroying it
C8_Witness ==
    /\ ev.damaged /\ ~ev.destroyed
    /\ is_mining
    /\ BlockAt(chunks, mining_target).current_health
          = BlockAt(chunks, mining_target).max_health - MiningDamageRate * ev.dt

----------------------------------------------------------------------------
----------------------------------------------------------------------------
(* C10 as stated: for a minable block and positive amounts, take_damage    *)
(* returns true exactly once in the sequence, on the call where the        *)
(* cumulative damage first reaches or exceeds max_health, and false on     *)
(* every other call.                                                       *)
C10_Original ==
    (blk.minable /\ \A i \in 1..Len(blk_hist) : blk_hist[i] > 0) =>
        \A i \in 1..Len(blk_rets) :
            blk_rets[i] <=>
                /\ SumSeq(SubSeq(blk_hist, 1, i)) >= blk.max_health
                /\ SumSeq(SubSeq(blk_hist, 1, i - 1)) < blk.max_health

(* C10 amended: for a minable block and positive amounts, take_damage      *)
(* returns false on every call before the cumulative damage reaches        *)
(* max_health, and true on the call where it first reaches or exceeds      *)
(* max_health and on every later call.                                     *)
C10_DestroyedFromThreshold ==
    (blk.minable /\ \A i \in 1..Len(blk_hist) : blk_hist[i] > 0) =>
        \A i \in 1..Len(blk_rets) :
            blk_rets[i] <=> (SumSeq(SubSeq(blk_hist, 1, i)) >= blk.max_health)

\* WOOD after damage 1.0, 1.0, 1.0: false, then true, then true again
C10_Witness ==
    /\ blk.type = "wood"
    /\ blk_hist = <<12, 12, 12>>
    /\ blk_rets = <<FALSE, TRUE, TRUE>>

----------------------------------------------------------------------------
(* C11: for a block of a non-minable type, after any number of take_damage *)
(* calls with positive amounts, every call has returned false and          *)
(* current_health is still max_health.                                     *)
C11_NonMinableUnchanged ==
    (~BlockMinable(blk.type) /\ \A i \in 1..Len(blk_hist) : blk_hist[i] > 0) =>
        /\ \A i \in 1..Len(blk_rets) : ~blk_rets[i]
        /\ blk.current_health = blk.max_health
        /\ blk = Block(blk.type)

\* GRASS after two hits that together exceed its health
C11_Witness ==
    /\ blk.type = "grass"
    /\ Len(blk_hist) >= 2
    /\ \A i \in 1..Len(blk_hist) : blk_hist[i] > 0
    /\ SumSeq(blk_hist) > blk.max_health
    /\ blk.current_health = blk.max_health

----------------------------------------------------------------------------
(* C12: a move towards a cell whose block is absent or not walkable leaves *)
(* world_x and world_y unchanged; whenever a step in which move ran        *)
(* changes the position, the destination block existed and was walkable    *)
(* and the new position is the old one plus the requested offset.          *)
C12_WalkabilityGate ==
    [][ev'.move_called =>
          LET dest == <<world_x + ev'.move_d[1], world_y + ev'.move_d[2]>>
              Gate(b) ==
                  LET ok == b # NoBlock /\ TypeWalkable(b.type)
                  IN  /\ ~ok => (world_x' = world_x /\ world_y' = world_y /\ ~ev'.moved)
                      /\ <<world_x', world_y'>> # <<world_x, world_y>> =>
                            (ok /\ <<world_x', world_y'>> = dest /\ ev'.moved)
          IN  Gate(get_block(chunks, dest[1], dest[2]))]_vars

\* a move west from the origin, blocked by the stone there
C12_Witness ==
    /\ ev.move_called /\ ~ev.moved
    /\ ev.move_d = <<-1, 0>>
    /\ world_x = 0 /\ world_y = 0
    /\ BlockAt(chunks, <<-1, 0>>).type = "stone"

----------------------------------------------------------------------------
\* the chunk key of a world cell
ChunkOf(c) == <<ChunkCoord(c[1]), ChunkCoord(c[2])>>

(* C13: replace_block on a coordinate whose chunk has never been           *)
(* materialized returns false and leaves the chunk store unchanged; the    *)
(* chunk is not created.                                                   *)
C13_WriteToMissingChunk ==
    [][(ev'.op = "replace_block" /\ ChunkOf(ev'.call_xy) \notin DOMAIN chunks) =>
          /\ ~ev'.ret_ok
          /\ chunks' = chunks
          /\ ChunkOf(ev'.call_xy) \notin DOMAIN chunks']_vars

\* a write to (48, 0), three chunks east of the fresh world, was refused
C13_Witness ==
    /\ ev.op = "replace_block"
    /\ ev.call_xy = <<48, 0>>
    /\ ~ev.ret_ok
    /\ <<3, 0>> \notin DOMAIN chunks

----------------------------------------------------------------------------
(* C14: replace_block(x, y, T) on a coordinate whose chunk is materialized *)
(* returns true; afterwards get_block(x, y) is a block of type T at T's    *)
(* full health, the set of chunks is the same and every other cell of      *)
(* every chunk holds the block it held.                                    *)
C14_WriteToChunk ==
    [][(ev'.op = "replace_block" /\ ChunkOf(ev'.call_xy) \in DOMAIN chunks) =>
          /\ ev'.ret_ok
          /\ get_block(chunks', ev'.call_xy[1], ev'.call_xy[2]) = Block(ev'.call_type)
          /\ get_block(chunks', ev'.call_xy[1], ev'.call_xy[2]).current_health
                = BlockMiningDifficulty(ev'.call_type)
          /\ DOMAIN chunks' = DOMAIN chunks
          /\ \A k \in DOMAIN chunks :
                /\ DOMAIN chunks'[k] = DOMAIN chunks[k]
                /\ \A l \in DOMAIN chunks[k] :
                      <<k, l>> # CellOf(ev'.call_xy) => chunks'[k][l] = chunks[k][l]]_vars

\* the grass at the origin was overwritten with wood
C14_Witness ==
    /\ ev.op = "replace_block"
    /\ ev.call_xy = <<0, 0>>
    /\ ev.call_type = "wood"
    /\ ev.ret_ok
    /\ BlockAt(chunks, <<0, 0>>) = Block("wood")

----------------------------------------------------------------------------
(* C15: get_block(x, y) returns a block, never None; when the chunk of     *)
(* (x, y) is absent it adds exactly that chunk, with all                   *)
(* chunk_size x chunk_size cells, and leaves the other chunks as they      *)
(* were; when the chunk is present the store is unchanged.                 *)
C15_ReadMaterializes ==
    [][ev'.op = "get_block" =>
          /\ ev'.ret_block # NoBlock
          /\ ev'.ret_block = BlockAt(chunks', ev'.call_xy)
          /\ ChunkOf(ev'.call_xy) \in DOMAIN chunks => chunks' = chunks
          /\ ChunkOf(ev'.call_xy) \notin DOMAIN chunks =>
                /\ DOMAIN chunks' = DOMAIN chunks \cup {ChunkOf(ev'.call_xy)}
                /\ DOMAIN chunks'[ChunkOf(ev'.call_xy)] = ChunkRange \X ChunkRange
                /\ \A k \in DOMAIN chunks : chunks'[k] = chunks[k]]_vars

\* a read at (-33, -48) has added the chunk (-3, -3) to the 25 initial ones,
\* after a write had changed the grass at (0, 0)
C15_Witness ==
    /\ ev.op = "get_block"
    /\ ev.call_xy = <<-33, -48>>
    /\ <<-3, -3>> \in DOMAIN chunks
    /\ Cardinality(DOMAIN chunks) = 26
    /\ BlockAt(chunks, <<0, 0>>).type = "dirt"

----------------------------------------------------------------------------
\* the cells the operation of this step may write: the cell passed to
\* replace_block, the target of the mining session, the cell a block was
\* placed on
WrittenCells ==
    (IF ev'.op = "replace_block" THEN {CellOf(ev'.call_xy)} ELSE {})
    \cup (IF mining_target # None THEN {CellOf(mining_target)} ELSE {})
    \cup (IF ev'.placed THEN {CellOf(get_target_position(Cur))} ELSE {})

(* C16: across get_block, replace_block, update_state, player moves and    *)
(* handle_window_resize the set of materialized chunks only grows and an   *)
(* existing chunk is never generated again: it keeps its cells, and a cell *)
(* changes only when the operation writes that cell, so a written cell     *)
(* keeps its type through later region generation and resizes.             *)
C16_ChunksPersist ==
    [][/\ DOMAIN chunks \subseteq DOMAIN chunks'
       /\ \A k \in DOMAIN chunks :
             /\ DOMAIN chunks'[k] = DOMAIN chunks[k]
             /\ chunks'[k] # chunks[k] =>
                   \A l \in DOMAIN chunks[k] :
                       chunks'[k][l] # chunks[k][l] => <<k, l>> \in WrittenCells]_vars

\* the stone at (-1, 0) was overwritten with dirt, the player walked onto it,
\* the window was resized and a frame generated the region around the player:
\* the chunk column -3 is new and the dirt is still there
C16_Witness ==
    /\ ev.op = "update_state"
    /\ world_x = -1
    /\ window_width = 3840
    /\ <<-3, 0>> \in DOMAIN chunks
    /\ BlockAt(chunks, <<-1, 0>>).type = "dirt"

----------------------------------------------------------------------------
(* C17: a fresh Game holds exactly the 25 chunks of the 5x5 square around  *)
(* the origin chunk, and after every update_state every chunk within       *)
(* Chebyshev distance 2 of the chunk of the player's position is           *)
(* materialized.                                                           *)
C17_RegionMaterialized ==
    /\ DOMAIN chunks = (-2..2) \X (-2..2)
    /\ [][ev'.op = "update_state" =>
             \A cx \in -2..2, cy \in -2..2 :
                 <<ChunkCoord(world_x') + cx, ChunkCoord(world_y') + cy>>
                     \in DOMAIN chunks']_vars

\* a frame with the player at x = -1 (chunk -1), the window never resized:
\* the chunk column -3 exists
C17_Witness ==
    /\ ev.op = "update_state"
    /\ world_x = -1
    /\ window_width = WINDOW_SIZE[1]
    /\ \A cy \in -2..2 : <<-3, cy>> \in DOMAIN chunks

----------------------------------------------------------------------------
\* the chunks that meet the camera's visible bounds, the camera centred on
\* (px, py) in a window of w x h pixels, with one more chunk on every side
VisibleChunks(px, py, w, h) ==
    LET half_w == w \div (2 * GRID_SIZE) + CameraMargin
        half_h == (h - INVENTORY_HEIGHT) \div (2 * GRID_SIZE) + CameraMargin
    IN  ((ChunkCoord(px - half_w) - 1)..(ChunkCoord(px + half_w) + 1))
            \X ((ChunkCoord(py - half_h) - 1)..(ChunkCoord(py + half_h) + 1))

(* C18 as stated: for any window size set through handle_window_resize,    *)
(* at the end of every update_state every chunk that meets the camera's    *)
(* visible rectangle (the camera centred on the player), with a 1-chunk    *)
(* margin around it, is materialized.                                      *)
C18_Original ==
    [][ev'.op = "update_state" =>
          VisibleChunks(world_x', world_y', window_width', window_height')
              \subseteq DOMAIN chunks']_vars

----------------------------------------------------------------------------
(* C19: chunk = floor(x / 16) and local = x mod 16 satisfy                 *)
(* chunk * 16 + local = x with 0 <= local < 16 for every integer x,        *)
(* negative ones included (x = -1 gives chunk -1, local 15); the block     *)
(* get_block returns for (x, y) is the one _generate_chunk produced for    *)
(* the world coordinate (x, y), and every cell of the chunk it reads that  *)
(* was never written holds the block generated for its world coordinate.   *)
C19_ChunkPartition ==
    /\ [](/\ \A x \in (0 - CoordBound)..CoordBound :
               /\ ChunkCoord(x) * ChunkSize + LocalCoord(x) = x
               /\ 0 <= LocalCoord(x) /\ LocalCoord(x) < ChunkSize
           /\ ChunkCoord(-1) = -1 /\ LocalCoord(-1) = 15)
    /\ [][ev'.op = "get_block" =>
             /\ ev'.call_xy \notin ReplaceCells =>
                   ev'.ret_block = Block(generate_block_type(terrain_seed,
                                                             ev'.call_xy[1],
                                                             ev'.call_xy[2]))
             /\ LET k == <<ev'.call_xy[1] \div 16, ev'.call_xy[2] \div 16>>
                IN  \A l \in DOMAIN chunks'[k] :
                        (\A c \in ReplaceCells :
                            c # <<k[1] * 16 + l[1], k[2] * 16 + l[2]>>) =>
                        chunks'[k][l].type
                            = generate_block_type(terrain_seed, k[1] * 16 + l[1],
                                                  k[2] * 16 + l[2])]_vars

\* a read at (-1, 0) returned the stone generated for (-1, 0), stored in
\* chunk (-1, 0) under the local key (15, 0)
C19_Witness ==
    /\ ev.op = "get_block"
    /\ ev.call_xy = <<-1, 0>>
    /\ ev.ret_block = Block("stone")
    /\ chunks[<<-1, 0>>][<<15, 0>>] = Block("stone")

----------------------------------------------------------------------------
(* C20: for a fixed seed, generate_block_type(x, y) returns the same type  *)
(* on every call, whatever cells were generated in between and in what     *)
(* order, and two generators constructed with the same seed agree: every   *)
(* call returns what the first call for that cell returned, whichever      *)
(* generator made it.                                                      *)
C20_Deterministic ==
    gen_last # None =>
        /\ gen_seen[gen_last.c] # None
        /\ gen_last.type = gen_seen[gen_last.c].type

\* generator 1 produced the tree at (0, -1) first; after every other cell
\* had been generated, generator 2 was asked for (0, -1) and returned wood
C20_Witness ==
    /\ gen_last = [g |-> 2, c |-> <<0, -1>>, type |-> "wood"]
    /\ gen_seen[<<0, -1>>] = [type |-> "wood", g |-> 1]
    /\ \A c \in TerrainCells : gen_seen[c] # None
    /\ gen_seen[<<0, 0>>].g = 2

----------------------------------------------------------------------------
\* rule i passes the three tests in front of its draw at cell c
RuleEligible(config, seed, c, i) ==
    LET rule == config.feature_rules[i]
    IN  /\ get_base_terrain_type(config, seed, c[1], c[2]) \in rule.base_terrain
        /\ rule.requires_deep => is_deep_underground(config, seed, c[1], c[2])
        /\ get_feature_noise(seed, c[1], c[2]) > rule.noise_threshold

\* the draw rule i sees: one draw is consumed by every earlier eligible rule
RuleDraw(config, seed, c, i) ==
    random_draw(c[1] * 10000 + c[2] + seed,
                Cardinality({j \in 1..(i - 1) : RuleEligible(config, seed, c, j)}))

\* rule i fires at cell c
RuleFires(config, seed, c, i) ==
    LET rule == config.feature_rules[i]
    IN  /\ RuleEligible(config, seed, c, i)
        /\ RuleDraw(config, seed, c, i) < rule.spawn_chance
        /\ (rule.name = "lava" /\ rule.requires_deep) =>
               pnoise2(c[1], c[2], seed + 2000) > config.noise_params.lava_pool_threshold

----------------------------------------------------------------------------
\* the threshold of the last base layer of the generator's configuration
HighestThreshold == self_config.base_layers[Len(self_config.base_layers)].threshold

(* C22 as stated: under every configuration the generator accepts,         *)
(* is_deep_underground is true exactly when the stretched noise value      *)
(* get_base_terrain_type uses is at or above the highest base-layer        *)
(* threshold, and every deep cell classifies as the last base layer.       *)
C22_Original ==
    (cfg_ev # None /\ cfg_ev.op = "classify"
        /\ validate_configuration(self_config) = {}) =>
        /\ cfg_ev.deep <=> (cfg_ev.noise >= HighestThreshold)
        /\ cfg_ev.deep =>
               cfg_ev.base = self_config.base_layers[Len(self_config.base_layers)].name

----------------------------------------------------------------------------
\* the thresholds of the base layers are not strictly ascending
NotAscending(config) ==
    \E i \in 1..(Len(config.base_layers) - 1) :
        config.base_layers[i + 1].threshold <= config.base_layers[i].threshold

\* the base terrain names of the feature rules that are no base layer
NonLayerNames(config) ==
    UNION {config.feature_rules[i].base_terrain : i \in DOMAIN config.feature_rules}
        \ {config.base_layers[i].name : i \in DOMAIN config.base_layers}

ConfigOps == {"construct", "update_configuration"}

(* C23 as stated: constructing a generator, or calling                     *)
(* update_configuration, with a configuration whose base-layer thresholds  *)
(* are not strictly ascending or in which a feature rule names a base      *)
(* terrain type that is not one of the base layers fails with a            *)
(* ValueError; a failed update_configuration leaves the previous           *)
(* configuration in place.                                                 *)
C23_Original ==
    [][cfg_ev'.op \in ConfigOps =>
          /\ (NotAscending(cfg[cfg_ev'.id]) \/ NonLayerNames(cfg[cfg_ev'.id]) # {})
                 => cfg_ev'.raised
          /\ cfg_ev'.raised => (gen_cfg' = gen_cfg /\ cfg' = cfg)]_vars

(* C23 amended: constructing a generator, or calling update_configuration, *)
(* with a configuration whose base-layer thresholds are not strictly       *)
(* ascending or in which a feature rule names a base terrain type that is  *)
(* neither one of the base layers nor DIRT fails with a ValueError         *)
(* carrying a non-empty issue list; a failed update_configuration leaves   *)
(* the generator's previous configuration in place.  A rule may name DIRT  *)
(* although DIRT is no base layer: the default configuration does, and is  *)
(* accepted.                                                               *)
C23_InvalidConfigRejected ==
    [][cfg_ev'.op \in ConfigOps =>
          /\ (NotAscending(cfg[cfg_ev'.id])
                \/ NonLayerNames(cfg[cfg_ev'.id]) \ {"dirt"} # {})
                 => (cfg_ev'.raised /\ cfg_ev'.issues # {})
          /\ cfg_ev'.raised => (gen_cfg' = gen_cfg /\ cfg' = cfg)
          /\ (cfg[cfg_ev'.id] = TerrainConfig) => ~cfg_ev'.raised]_vars

\* update_configuration was refused a configuration whose coal rule names
\* lava as base terrain, and the generator still holds DEFAULT_CONFIG
C23_Witness ==
    /\ cfg_ev # None
    /\ cfg_ev.op = "update_configuration"
    /\ cfg_ev.raised
    /\ <<"unknown base terrain", 4>> \in cfg_ev.issues
    /\ ~NotAscending(cfg[cfg_ev.id])
    /\ gen_cfg = DEFAULT_CONFIG
    /\ cfg_ev.id # DEFAULT_CONFIG

----------------------------------------------------------------------------
(* C24 as stated: the TerrainConfig invariant (base-layer thresholds       *)
(* strictly increasing, every threshold and spawn chance within [0,1])     *)
(* holds for the default configuration and is preserved by any sequence of *)
(* auto_adjust_thresholds calls, so a generator holding that configuration *)
(* never operates on one that validate_configuration would reject.         *)
(* DEFAULT_CONFIG is changed by auto_adjust_thresholds only.               *)
C24_Original ==
    LET config == cfg[DEFAULT_CONFIG]
    IN  /\ ~NotAscending(config)
        /\ \A i \in DOMAIN config.base_layers :
               config.base_layers[i].threshold \in 0..100
        /\ \A i \in DOMAIN config.feature_rules :
               /\ config.feature_rules[i].noise_threshold \in 0..100
               /\ config.feature_rules[i].spawn_chance \in 0..100
        /\ gen_cfg = DEFAULT_CONFIG => validate_configuration(self_config) = {}

\* the cells of the chunks chs: (chunk key, local key) pairs
CellsOf(chs) == {kl \in (DOMAIN chs) \X (0..(ChunkSize - 1)) \X (0..(ChunkSize - 1)) :
                    <<kl[2], kl[3]>> \in DOMAIN chs[kl[1]]}

FacingCell ==
    CASE orientation = "north" -> <<world_x, world_y - 1>>
      [] orientation = "south" -> <<world_x, world_y + 1>>
      [] orientation = "west" -> <<world_x - 1, world_y>>
      [] orientation = "east" -> <<world_x + 1, world_y>>

\* the type in the active slot, NoType when the slot is empty
ActiveSlotType ==
    IF active_slot + 1 \in 1..Len(inventory) /\ active_slot < 5
    THEN inventory[active_slot + 1].type
    ELSE NoType

\* place_block has something to place and somewhere to place it
CanPlace ==
    /\ ActiveSlotType # NoType
    /\ InventoryCount(inventory, ActiveSlotType) > 0
    /\ get_block(chunks, FacingCell[1], FacingCell[2]) # NoBlock
    /\ get_block(chunks, FacingCell[1], FacingCell[2]).walkable

\* C26: place_block, when the active slot holds a type with a positive count
\* and the facing cell's block exists and is walkable, replaces the facing
\* cell with a block of that type and lowers that type's count by exactly
\* one, leaving every other cell and count alone; in every other case it
\* changes neither the world nor the inventory
C26_PlaceBlock ==
    [][ev'.place_called =>
          IF CanPlace
          THEN /\ get_block(chunks', FacingCell[1], FacingCell[2]) = Block(ActiveSlotType)
               /\ DOMAIN chunks' = DOMAIN chunks
               /\ \A kl \in CellsOf(chunks) :
                      <<kl[1][1] * ChunkSize + kl[2], kl[1][2] * ChunkSize + kl[3]>>
                              # FacingCell
                          => chunks'[kl[1]][<<kl[2], kl[3]>>]
                                 = chunks[kl[1]][<<kl[2], kl[3]>>]
               /\ \A t \in BlockTypes :
                      InventoryCount(inventory', t)
                          = InventoryCount(inventory, t)
                                - (IF t = ActiveSlotType THEN 1 ELSE 0)
               /\ ev'.placed
          ELSE /\ chunks' = chunks
               /\ inventory' = inventory
               /\ ~ev'.placed]_vars

\* place_block has just placed a block
C26_Witness ==
    /\ ev.place_called /\ ev.placed
    /\ get_block(chunks, FacingCell[1], FacingCell[2]).type \in {"wood", "stone"}

\* place_block ran with an inventory that holds a block, facing a cell
\* that is not walkable, and placed nothing
C26_WitnessRefused ==
    /\ ev.place_called /\ ~ev.placed
    /\ inventory # <<>>
    /\ ~get_block(chunks, FacingCell[1], FacingCell[2]).walkable

\* the static tables of BlockType agree with each other
TablesConsistent ==
    \A t \in BlockTypes :
        /\ TypeMinable(t) =>
               /\ ~TypeWalkable(t)
               /\ MiningResult(t) \in BlockTypes
               /\ ReplacementBlock(t) \in BlockTypes
               /\ TypeWalkable(ReplacementBlock(t))
               /\ ~TypeMinable(ReplacementBlock(t))
        /\ ~TypeMinable(t) =>
               /\ MiningResult(t) = NoType
               /\ ReplacementBlock(t) = NoType

\* C29: the static BlockType tables are mutually consistent (every minable
\* type is non-walkable and has a mining_result and a replacement_block,
\* every replacement_block is walkable and non-minable, every non-minable
\* type has neither); hence a completed mining writes a block of a real
\* type into the mined cell, and that block is walkable and not minable
C29_TablesConsistent ==
    /\ []TablesConsistent
    /\ [][ev'.completed =>
             LET mined == get_block(chunks', mining_target[1], mining_target[2])
             IN  /\ mined.type \in BlockTypes
                 /\ mined.type = ReplacementBlock(
                        get_block(chunks, mining_target[1], mining_target[2]).type)
                 /\ mined.walkable /\ ~mined.minable
                 /\ mined.type \notin {"wood", "stone", "coal", "diamond"}]_vars

\* a mining session has just completed on stone and left dirt behind
C29_Witness ==
    /\ ev.completed
    /\ InventoryCount(inventory, "stone") > 0
    /\ get_block(chunks, FacingCell[1], FacingCell[2]).type = "dirt"

\* the unit vector of a movement key
UnitOf(key) ==
    CASE key = K_w -> <<0, -1>>
      [] key = K_s -> <<0, 1>>
      [] key = K_a -> <<-1, 0>>
      [] key = K_d -> <<1, 0>>

\* the player's displacement in a step
Displacement == <<world_x' - world_x, world_y' - world_y>>

\* exactly the key is held, the player faces its direction and the cell
\* ahead is walkable
HeldFacing(key) ==
    /\ pressed_keys = {key}
    /\ orientation = OrientationOf(key)
    /\ get_block(chunks, FacingCell[1], FacingCell[2]).walkable

\* C27: while one movement key is held with the player facing that way and
\* the cell ahead walkable, an update moves the player one cell exactly
\* when the accumulated update time (movement_timer plus this frame's dt)
\* has reached move_interval, and not before; no update moves it more than
\* one cell; with no key held an update does not move it
C27_MovementTiming ==
    [][ev'.op = "update_state" =>
          /\ Displacement \in Directions \cup {<<0, 0>>}
          /\ pressed_keys = {} => Displacement = <<0, 0>>
          /\ \A key \in MovementKeys :
                 HeldFacing(key) =>
                     IF movement_timer + ev'.dt >= MoveInterval
                     THEN Displacement = UnitOf(key) /\ movement_timer' = 0
                     ELSE /\ Displacement = <<0, 0>>
                          /\ movement_timer' = movement_timer + ev'.dt]_vars

\* the player has stepped north in a short frame that brought the
\* accumulated time to move_interval
C27_Witness ==
    /\ ev.op = "update_state" /\ ev.moved
    /\ ev.dt = 1
    /\ <<world_x, world_y>> = <<0, -1>>

\* a frame passed with the key held and the timer still short of move_interval
C27_WitnessWaiting ==
    /\ ev.op = "update_state" /\ ~ev.moved
    /\ pressed_keys # {} /\ movement_timer = 1

\* C30: when several movement keys are held at once, the most recently
\* pressed key (the held key whose direction the player faces: a key
\* press turns the player, and nothing else does) decides the direction:
\* once move_interval has elapsed the player moves one cell that way,
\* provided the cell in that direction is walkable
C30_Original ==
    [][\A key \in MovementKeys :
          (/\ ev'.op = "update_state"
           /\ key \in pressed_keys
           /\ Cardinality(pressed_keys) >= 2
           /\ orientation = OrientationOf(key)
           /\ get_block(chunks, FacingCell[1], FacingCell[2]).walkable
           /\ movement_timer + ev'.dt >= MoveInterval)
              => Displacement = UnitOf(key)]_vars

\* C28, the timing of the completion: at the unit damage rate the block is
\* destroyed in the first tick at which the dt accumulated by the session's
\* ticks reaches the type's mining_difficulty, and in no earlier tick
C28_Original ==
    [][(is_mining /\ mining_target # None /\ ev'.damaged) =>
          (ev'.destroyed <=>
              session_dt + ev'.dt
                  >= MiningDifficulty(BlockAt(chunks, mining_target).type))]_vars

\* C32: whenever the session is Mining(t), the block at t exists and is of
\* a minable type
C32_TargetMinable ==
    is_mining =>
        /\ mining_target # None
        /\ BlockAt(chunks, mining_target) # NoBlock
        /\ BlockAt(chunks, mining_target).type \in {"wood", "stone", "coal", "diamond"}

\* a session is active on a block the player placed: the mined stone, put
\* down where the tree stood
C32_Witness ==
    /\ is_mining
    /\ mining_target = <<0, -1>>
    /\ BlockAt(chunks, <<0, -1>>).type = "stone"

\* C33: whenever the session is Mining(t), t is the cell the player is
\* facing
C33_Original == (is_mining /\ mining_target # None) => mining_target = FacingCell

\* C34: the cell the player occupies holds a walkable block
C34_StandsOnWalkable ==
    /\ BlockAt(chunks, <<world_x, world_y>>) # NoBlock
    /\ BlockAt(chunks, <<world_x, world_y>>).type \in {"grass", "dirt", "sand"}

\* the player stands where the stone was, next to a block it has placed
C34_Witness ==
    /\ <<world_x, world_y>> = <<-1, 0>>
    /\ BlockAt(chunks, <<0, 0>>).type \in {"wood", "stone"}

\* C35: every block in the chunk store has 0 < current_health <= max_health
C35_StoredHealth ==
    \A c \in Cells(chunks) :
        /\ 0 < BlockAtCell(chunks, c).current_health
        /\ BlockAtCell(chunks, c).current_health <= BlockAtCell(chunks, c).max_health

\* a tick has just taken the stone to zero with its second half of the
\* damage, and the store holds a full-health block in its place
C35_Witness ==
    /\ ev.op = "update_state" /\ ev.destroyed /\ ev.dt = 30
    /\ BlockAt(chunks, <<-1, 0>>) = Block("dirt")
    /\ InventoryCount(inventory, "stone") = 1

\* C36: every count stored in the inventory is at least 1, and no type is
\* stored twice
C36_CountsPositive ==
    /\ \A i \in 1..Len(inventory) : inventory[i].count >= 1
    /\ \A i, j \in 1..Len(inventory) :
           inventory[i].type = inventory[j].type => i = j

\* the last block of a type was placed and the type left the inventory,
\* another type staying behind
C36_Witness ==
    /\ ev.placed
    /\ Len(inventory) = 1
    /\ \E t \in {"wood", "stone"} :
           /\ BlockAt(chunks, FacingCell).type = t
           /\ InventoryCount(inventory, t) = 0


(* C37: one press and release of SPACE never both mines and places: when   *)
(* the key-down of SPACE started a mining session, the matching key-up of   *)
(* SPACE places no block, however the session ended in between.            *)
C37_Original ==
    [][(K_SPACE \in held /\ K_SPACE \notin held' /\ press_mined) => ~ev'.placed]_vars

(* a KEYDOWN of `key` that a menu handled while the application was paused *)
PausedTap(key) == game_state = "paused" /\ held' = held /\ ev'.op = key

(* C31: from the paused state, confirming a non-empty name in the save     *)
(* screen saves the world under that name and leaves for the menu with no  *)
(* game; Resume or ESC in the pause menu goes back to playing; Exit        *)
(* without Saving leaves for the menu and writes nothing.                  *)
C31_Original ==
    [][/\ (PausedTap(K_RETURN) /\ current_menu = "save_world"
              /\ strip(save_world_name) # <<>>)
          => /\ game_state' = "menu" /\ ~has_game'
             /\ strip(save_world_name) \in DOMAIN saves'
             /\ saves'[strip(save_world_name)] =
                    [ok |-> TRUE, data |-> save_world(Cur, terrain_seed)]
       /\ (current_menu = "pause"
              /\ (PausedTap(K_ESCAPE) \/ (PausedTap(K_RETURN) /\ selected_option = 0)))
          => game_state' = "playing" /\ has_game'
       /\ (PausedTap(K_RETURN) /\ current_menu = "pause" /\ selected_option = 2)
          => game_state' = "menu" /\ ~has_game' /\ saves' = saves]_vars

(* C38: while the application is playing, pressed_keys holds only movement *)
(* keys that are physically down and is_mining is true only while SPACE is  *)
(* physically down, pauses and resumes included.                           *)
C38_Original ==
    (game_state = "playing" /\ has_game)
        => /\ pressed_keys \subseteq held \cap MovementKeys
           /\ is_mining => K_SPACE \in held

====
